---- MODULE Spec2Model ----
(***************************************************************************)
(* Verification model of the rental-investment analysis engine             *)
(* (frontend/src/lib/analyze.ts): calcEmi, calcRemaining, computeIrr and   *)
(* analyze.                                                                *)
(*                                                                         *)
(* Numbers.  The engine computes on IEEE doubles.  The model computes the  *)
(* same expressions, in the same order, over exact rationals extended with *)
(* the three non-finite doubles: a number is a record [n, d] with d > 0    *)
(* and gcd(n, d) = 1 for the rational n/d, and d = 0 for +Infinity (n = 1),*)
(* -Infinity (n = -1) and NaN (n = 0).  Rounding and signed zeros are not  *)
(* modelled.                                                               *)
(***************************************************************************)
EXTENDS Integers, Sequences, FiniteSets, TLC

(***************************************************************************)
(* Exact arithmetic with JavaScript's rules for non-finite values.         *)
(***************************************************************************)
Abs(x) == IF x < 0 THEN -x ELSE x

Sgn(x) == IF x > 0 THEN 1 ELSE IF x < 0 THEN -1 ELSE 0

RECURSIVE Gcd(_, _)
Gcd(a, b) == IF b = 0 THEN a ELSE Gcd(b, a % b)

\* the rational n/d, d # 0, in lowest terms with a positive denominator
Q(n, d) ==
  LET g == Gcd(Abs(n), Abs(d))
  IN [n |-> Sgn(d) * (n \div g), d |-> Abs(d) \div g]

I(k) == [n |-> k, d |-> 1]

Zero == I(0)

One == I(1)

NaN == [n |-> 0, d |-> 0]

PosInf == [n |-> 1, d |-> 0]

NegInf == [n |-> -1, d |-> 0]

IsFinite(x) == x.d # 0

IsNaN(x) == x.d = 0 /\ x.n = 0

Neg(x) == [n |-> -x.n, d |-> x.d]

Add(a, b) ==
  IF IsNaN(a) \/ IsNaN(b) THEN NaN
  ELSE IF a.d = 0 /\ b.d = 0 THEN (IF a.n = b.n THEN a ELSE NaN)
  ELSE IF a.d = 0 THEN a
  ELSE IF b.d = 0 THEN b
  ELSE LET g == Gcd(a.d, b.d)
       IN Q(a.n * (b.d \div g) + b.n * (a.d \div g), (a.d \div g) * b.d)

Sub(a, b) == Add(a, Neg(b))

Mul(a, b) ==
  IF a.d = 0 \/ b.d = 0 THEN [n |-> Sgn(a.n) * Sgn(b.n), d |-> 0]
  ELSE LET g1 == Gcd(Abs(a.n), b.d)
           g2 == Gcd(Abs(b.n), a.d)
       IN IF a.n = 0 \/ b.n = 0 THEN Zero
          ELSE [n |-> (a.n \div g1) * (b.n \div g2),
                d |-> (a.d \div g2) * (b.d \div g1)]

Div(a, b) ==
  IF IsNaN(a) \/ IsNaN(b) THEN NaN
  ELSE IF b.d = 0 THEN (IF a.d = 0 THEN NaN ELSE Zero)
  ELSE IF b.n = 0 THEN [n |-> Sgn(a.n), d |-> 0]
  ELSE IF a.d = 0 THEN [n |-> Sgn(a.n) * Sgn(b.n), d |-> 0]
  ELSE Mul(a, [n |-> Sgn(b.n) * b.d, d |-> Abs(b.n)])

\* a < b and a <= b as JavaScript compares numbers: false when either is NaN
Lt(a, b) ==
  IF IsNaN(a) \/ IsNaN(b) THEN FALSE
  ELSE IF a.d = 0 \/ b.d = 0
       THEN (IF a.d = 0 THEN a.n ELSE 0) < (IF b.d = 0 THEN b.n ELSE 0)
  ELSE Sub(a, b).n < 0

Le(a, b) ==
  IF IsNaN(a) \/ IsNaN(b) THEN FALSE
  ELSE IF a.d = 0 \/ b.d = 0
       THEN (IF a.d = 0 THEN a.n ELSE 0) <= (IF b.d = 0 THEN b.n ELSE 0)
  ELSE Sub(a, b).n <= 0

RECURSIVE PowInt(_, _)
PowInt(x, k) == IF k = 0 THEN One ELSE Mul(x, PowInt(x, k - 1))

\* Math.pow(x, y) for the exponents the model uses: y an integer
Pow(x, y) ==
  IF y.n >= 0 THEN PowInt(x, y.n) ELSE Div(One, PowInt(x, -y.n))

\* Math.abs(x)
AbsQ(x) == [n |-> Abs(x.n), d |-> x.d]

\* Math.max(0, x): NaN when x is NaN
Max0(x) == IF IsNaN(x) THEN NaN ELSE IF Lt(x, Zero) THEN Zero ELSE x

(***************************************************************************)
(* AmortizationCalculator: calcEmi and calcRemaining.                      *)
(***************************************************************************)
\* calcEmi that tests the zero rate before the principal
calcEmi_rateFirst(principal, annualRate, years) ==
  IF annualRate = Zero THEN Div(principal, Mul(years, I(12)))
  ELSE IF Le(principal, Zero) THEN Zero
  ELSE LET i == Div(Div(annualRate, I(100)), I(12))
           n == Mul(years, I(12))
       IN Div(Mul(Mul(principal, i), Pow(Add(One, i), n)),
              Sub(Pow(Add(One, i), n), One))

\* calcEmi without its zero-rate branch
calcEmi_noZeroRate(principal, annualRate, years) ==
  IF Le(principal, Zero) THEN Zero
  ELSE LET i == Div(Div(annualRate, I(100)), I(12))
           n == Mul(years, I(12))
       IN Div(Mul(Mul(principal, i), Pow(Add(One, i), n)),
              Sub(Pow(Add(One, i), n), One))

calcEmi(principal, annualRate, years) ==
  IF Le(principal, Zero) THEN Zero
  ELSE IF annualRate = Zero THEN Div(principal, Mul(years, I(12)))
  ELSE LET i == Div(Div(annualRate, I(100)), I(12))
           n == Mul(years, I(12))
       IN Div(Mul(Mul(principal, i), Pow(Add(One, i), n)),
              Sub(Pow(Add(One, i), n), One))

\* calcRemaining whose zero-rate branch returns the part paid off
calcRemaining_paidPart(principal, annualRate, totalYears, yearsPaid) ==
  IF Le(totalYears, yearsPaid) \/ Le(principal, Zero) THEN Zero
  ELSE IF annualRate = Zero
       THEN Mul(principal, Div(yearsPaid, totalYears))
  ELSE LET i == Div(Div(annualRate, I(100)), I(12))
           N == Mul(totalYears, I(12))
           n == Mul(yearsPaid, I(12))
       IN Max0(Div(Mul(principal, Sub(Pow(Add(One, i), N), Pow(Add(One, i), n))),
                   Sub(Pow(Add(One, i), N), One)))

calcRemaining(principal, annualRate, totalYears, yearsPaid) ==
  IF Le(totalYears, yearsPaid) \/ Le(principal, Zero) THEN Zero
  ELSE IF annualRate = Zero
       THEN Mul(principal, Sub(One, Div(yearsPaid, totalYears)))
  ELSE LET i == Div(Div(annualRate, I(100)), I(12))
           N == Mul(totalYears, I(12))
           n == Mul(yearsPaid, I(12))
       IN Max0(Div(Mul(principal, Sub(Pow(Add(One, i), N), Pow(Add(One, i), n))),
                   Sub(Pow(Add(One, i), N), One)))

(***************************************************************************)
(* Arithmetic of the IRR solver.  Sixty bisection steps produce rates with *)
(* denominators up to 2^61, so the solver computes on rationals whose      *)
(* numerator and denominator are unbounded integers: a magnitude is a      *)
(* sequence of base-4096 digits, least significant first, without leading  *)
(* zeros (<<>> is 0); a big integer is [s, m] with sign s and magnitude m; *)
(* a solver number is [n, d], the big integer n over the magnitude d > 0,  *)
(* kept free of common factors of two.                                     *)
(***************************************************************************)
Base == 2 ^ 12

SetMax(S) == CHOOSE i \in S : \A j \in S : j <= i

MagTrim(a) ==
  LET nz == {i \in 1..Len(a) : a[i] # 0}
  IN IF nz = {} THEN <<>> ELSE SubSeq(a, 1, SetMax(nz))

RECURSIVE Carry(_, _, _)
\* digits of the number whose i-th and later unnormalised digits are a[i..], plus carry c
Carry(a, i, c) ==
  IF i > Len(a) THEN (IF c = 0 THEN <<>> ELSE <<c % Base>> \o Carry(a, i, c \div Base))
  ELSE LET x == a[i] + c IN <<x % Base>> \o Carry(a, i + 1, x \div Base)

RECURSIVE Borrow(_, _, _, _)
\* digits of a - b from digit i on, with borrow br (a >= b)
Borrow(a, b, i, br) ==
  IF i > Len(a) THEN <<>>
  ELSE LET x == a[i] - (IF i <= Len(b) THEN b[i] ELSE 0) - br
       IN IF x < 0 THEN <<x + Base>> \o Borrow(a, b, i + 1, 1)
          ELSE <<x>> \o Borrow(a, b, i + 1, 0)

RECURSIVE Conv(_, _, _, _)
\* sum of a[i] * b[k - i + 1] over the digit pairs of weight k
Conv(a, b, k, i) ==
  IF i > Len(a) \/ i > k THEN 0
  ELSE (IF k - i + 1 <= Len(b) THEN a[i] * b[k - i + 1] ELSE 0) + Conv(a, b, k, i + 1)

MagAdd(a, b) ==
  LET len == IF Len(a) > Len(b) THEN Len(a) ELSE Len(b)
  IN Carry([k \in 1..len |-> (IF k <= Len(a) THEN a[k] ELSE 0)
                              + (IF k <= Len(b) THEN b[k] ELSE 0)], 1, 0)

MagSub(a, b) == MagTrim(Borrow(a, b, 1, 0))

MagMul(a, b) ==
  IF Len(a) = 0 \/ Len(b) = 0 THEN <<>>
  ELSE Carry([k \in 1..(Len(a) + Len(b) - 1) |-> Conv(a, b, k, 1)], 1, 0)

\* -1, 0, 1 as a < b, a = b, a > b
MagCmp(a, b) ==
  IF Len(a) # Len(b) THEN (IF Len(a) < Len(b) THEN -1 ELSE 1)
  ELSE LET diff == {i \in 1..Len(a) : a[i] # b[i]}
       IN IF diff = {} THEN 0
          ELSE IF a[SetMax(diff)] < b[SetMax(diff)] THEN -1 ELSE 1

\* a divided by 2^t, 0 <= t <= 12, for a magnitude a divisible by 2^t
MagShr(a, t) ==
  MagTrim([i \in 1..Len(a) |->
             (a[i] \div (2 ^ t))
               + (IF i < Len(a) THEN (a[i + 1] % (2 ^ t)) * (Base \div (2 ^ t)) ELSE 0)])

RECURSIVE MagFromNat(_)
MagFromNat(k) == IF k = 0 THEN <<>> ELSE <<k % Base>> \o MagFromNat(k \div Base)

BigFromInt(k) == [s |-> Sgn(k), m |-> MagFromNat(Abs(k))]

BigNeg(x) == [s |-> -x.s, m |-> x.m]

BigAdd(x, y) ==
  IF x.s = 0 THEN y
  ELSE IF y.s = 0 THEN x
  ELSE IF x.s = y.s THEN [s |-> x.s, m |-> MagAdd(x.m, y.m)]
  ELSE LET c == MagCmp(x.m, y.m)
       IN IF c = 0 THEN [s |-> 0, m |-> <<>>]
          ELSE IF c > 0 THEN [s |-> x.s, m |-> MagSub(x.m, y.m)]
          ELSE [s |-> y.s, m |-> MagSub(y.m, x.m)]

BigMul(x, y) == [s |-> x.s * y.s, m |-> MagMul(x.m, y.m)]

RECURSIVE TwoAdic(_)
\* the number of factors of two of a digit 1..4095
TwoAdic(dg) == IF dg % 2 = 1 THEN 0 ELSE 1 + TwoAdic(dg \div 2)

RECURSIVE RNorm(_, _)
\* the solver number n/d with the common factors of two removed
RNorm(n, d) ==
  IF n.s = 0 THEN [n |-> n, d |-> <<1>>]
  ELSE IF n.m[1] = 0 /\ d[1] = 0 THEN RNorm([s |-> n.s, m |-> Tail(n.m)], Tail(d))
  ELSE LET tn == IF n.m[1] = 0 THEN 12 ELSE TwoAdic(n.m[1])
           td == IF d[1] = 0 THEN 12 ELSE TwoAdic(d[1])
           t == IF tn < td THEN tn ELSE td
       IN IF t = 0 THEN [n |-> n, d |-> d]
          ELSE [n |-> [s |-> n.s, m |-> MagShr(n.m, t)], d |-> MagShr(d, t)]

RInt(k) == [n |-> BigFromInt(k), d |-> <<1>>]

\* the solver number of the finite number q
ToR(q) == [n |-> BigFromInt(q.n), d |-> MagFromNat(q.d)]

RZero == RInt(0)

RNeg(a) == [n |-> BigNeg(a.n), d |-> a.d]

RAdd(a, b) ==
  IF a.d = b.d THEN RNorm(BigAdd(a.n, b.n), a.d)
  ELSE RNorm(BigAdd(BigMul(a.n, [s |-> 1, m |-> b.d]), BigMul(b.n, [s |-> 1, m |-> a.d])),
             MagMul(a.d, b.d))

RSub(a, b) == RAdd(a, RNeg(b))

RMul(a, b) == RNorm(BigMul(a.n, b.n), MagMul(a.d, b.d))

\* a / b for b # 0
RDiv(a, b) ==
  RNorm([s |-> a.n.s * b.n.s, m |-> MagMul(a.n.m, b.d)], MagMul(a.d, b.n.m))

RSign(a) == a.n.s

RLt(a, b) == RSign(RSub(a, b)) < 0

RLe(a, b) == RSign(RSub(a, b)) <= 0

RECURSIVE RPow(_, _)
\* Math.pow(x, t) for an integer t >= 0
RPow(x, t) == IF t = 0 THEN RInt(1) ELSE RMul(x, RPow(x, t - 1))

(***************************************************************************)
(* IRRSolver: computeIrr(cashFlows), one step of the function at a time.   *)
(* A solver state st records the position pc in the function, the bracket  *)
(* lo, hi with nLo, nHi, the number k of widened upper bounds tried, the   *)
(* number i of bisection iterations done, the number of npvAt calls made   *)
(* and, at pc = "done", the returned value ret.                            *)
(***************************************************************************)
BisectIterations == 60

TryHis == <<10, 50, 100>>

hasNeg(cashFlows) == \E t \in 1..Len(cashFlows) : Lt(cashFlows[t], Zero)

hasPos(cashFlows) == \E t \in 1..Len(cashFlows) : Lt(Zero, cashFlows[t])

RECURSIVE npvFrom(_, _, _, _)
\* the loop of npvAt from index t (0-based) on, npv being the sum so far
npvFrom(cashFlows, rate, t, npv) ==
  IF t >= Len(cashFlows) THEN npv
  ELSE npvFrom(cashFlows, rate, t + 1,
               RAdd(npv, RDiv(ToR(cashFlows[t + 1]), RPow(RAdd(RInt(1), rate), t))))

npvAt(cashFlows, rate) == npvFrom(cashFlows, rate, 0, RZero)

\* the sign of x * y; in exact arithmetic the product of the signs
ProdSign(x, y) == RSign(x) * RSign(y)

irrInit ==
  [pc |-> "signs", lo |-> RZero, hi |-> RZero, nLo |-> RZero, nHi |-> RZero,
   k |-> 0, i |-> 0, npvCalls |-> 0, ret |-> RZero]

\* irrSigns that returns early only when no entry is negative
irrSigns_onlyNeg(cashFlows, st) ==
  IF ~hasNeg(cashFlows)
  THEN [st EXCEPT !.pc = "done", !.ret = RZero]
  ELSE [st EXCEPT !.pc = "bracket"]

irrSigns(cashFlows, st) ==
  IF ~hasNeg(cashFlows) \/ ~hasPos(cashFlows)
  THEN [st EXCEPT !.pc = "done", !.ret = RZero]
  ELSE [st EXCEPT !.pc = "bracket"]

irrBracket(cashFlows, st) ==
  LET lo == RDiv(RInt(-1), RInt(2))
      hi == RInt(5)
      nLo == npvAt(cashFlows, lo)
      nHi == npvAt(cashFlows, hi)
  IN [st EXCEPT !.lo = lo, !.hi = hi, !.nLo = nLo, !.nHi = nHi,
                !.npvCalls = @ + 2,
                !.pc = IF ProdSign(nLo, nHi) > 0 THEN "widen" ELSE "bisect"]

\* a widening loop without break: every upper bound is tried and the last
\* one with a sign change is kept
irrWiden_noBreak(cashFlows, st) ==
  IF st.k < Len(TryHis)
  THEN LET tryHi == RInt(TryHis[st.k + 1])
           nHi == npvAt(cashFlows, tryHi)
       IN IF ProdSign(st.nLo, nHi) <= 0
          THEN [st EXCEPT !.nHi = nHi, !.hi = tryHi, !.k = @ + 1, !.npvCalls = @ + 1]
          ELSE [st EXCEPT !.k = @ + 1, !.npvCalls = @ + 1]
  ELSE IF ProdSign(st.nLo, st.nHi) > 0
       THEN [st EXCEPT !.pc = "done", !.ret = RZero]
       ELSE [st EXCEPT !.pc = "bisect"]

\* one pass of  for (const tryHi of [10, 50, 100]), or the test after the loop
irrWiden(cashFlows, st) ==
  IF st.k < Len(TryHis)
  THEN LET tryHi == RInt(TryHis[st.k + 1])
           nHi == npvAt(cashFlows, tryHi)
       IN IF ProdSign(st.nLo, nHi) <= 0
          THEN [st EXCEPT !.nHi = nHi, !.hi = tryHi, !.k = @ + 1,
                          !.npvCalls = @ + 1, !.pc = "bisect"]
          ELSE [st EXCEPT !.nHi = nHi, !.k = @ + 1, !.npvCalls = @ + 1]
  ELSE IF ProdSign(st.nLo, st.nHi) > 0
       THEN [st EXCEPT !.pc = "done", !.ret = RZero]
       ELSE [st EXCEPT !.pc = "bisect"]

\* a bisection loop that runs while i <= 60
irrBisect_oneMore(cashFlows, st) ==
  IF st.i <= BisectIterations
  THEN LET mid == RDiv(RAdd(st.lo, st.hi), RInt(2))
           nMid == npvAt(cashFlows, mid)
       IN IF ProdSign(nMid, st.nLo) <= 0
          THEN [st EXCEPT !.hi = mid, !.nHi = nMid, !.i = @ + 1, !.npvCalls = @ + 1]
          ELSE [st EXCEPT !.lo = mid, !.nLo = nMid, !.i = @ + 1, !.npvCalls = @ + 1]
  ELSE [st EXCEPT !.pc = "clamp"]

\* a bisection step that compares the midpoint's NPV with the NPV at hi
irrBisect_testHi(cashFlows, st) ==
  IF st.i < BisectIterations
  THEN LET mid == RDiv(RAdd(st.lo, st.hi), RInt(2))
           nMid == npvAt(cashFlows, mid)
       IN IF ProdSign(nMid, st.nHi) <= 0
          THEN [st EXCEPT !.hi = mid, !.nHi = nMid, !.i = @ + 1, !.npvCalls = @ + 1]
          ELSE [st EXCEPT !.lo = mid, !.nLo = nMid, !.i = @ + 1, !.npvCalls = @ + 1]
  ELSE [st EXCEPT !.pc = "clamp"]

\* one pass of the bisection loop, or its exit
irrBisect(cashFlows, st) ==
  IF st.i < BisectIterations
  THEN LET mid == RDiv(RAdd(st.lo, st.hi), RInt(2))
           nMid == npvAt(cashFlows, mid)
       IN IF ProdSign(nMid, st.nLo) <= 0
          THEN [st EXCEPT !.hi = mid, !.nHi = nMid, !.i = @ + 1, !.npvCalls = @ + 1]
          ELSE [st EXCEPT !.lo = mid, !.nLo = nMid, !.i = @ + 1, !.npvCalls = @ + 1]
  ELSE [st EXCEPT !.pc = "clamp"]

\* irrClamp that returns the rate as a fraction instead of a percentage
irrClamp_fraction(st) ==
  LET r == RDiv(RAdd(st.lo, st.hi), RInt(2))
  IN IF RLt(r, RInt(-1)) \/ RLt(RInt(10), r)
     THEN [st EXCEPT !.pc = "done", !.ret = RZero]
     ELSE [st EXCEPT !.pc = "done", !.ret = r]

\* irrClamp without the range test
irrClamp_unclamped(st) ==
  [st EXCEPT !.pc = "done", !.ret = RMul(RDiv(RAdd(st.lo, st.hi), RInt(2)), RInt(100))]

\* the midpoint of the final bracket, clamped to -100% .. 1000%
irrClamp(st) ==
  LET r == RDiv(RAdd(st.lo, st.hi), RInt(2))
  IN IF RLt(r, RInt(-1)) \/ RLt(RInt(10), r)
     THEN [st EXCEPT !.pc = "done", !.ret = RZero]
     ELSE [st EXCEPT !.pc = "done", !.ret = RMul(r, RInt(100))]

(***************************************************************************)
(* analyze(listing, p).  A listing carries price, rentZestimate,           *)
(* propertyTaxRate and monthlyHoaFee (the fields the engine reads); Null   *)
(* stands for null / undefined.  The loops over yr = 1..holdingYears are   *)
(* sequences indexed by yr.                                                *)
(***************************************************************************)
Null == [n |-> 0, d |-> -1]

\* a truthiness test that lets every value through
Truthy_always(x) == TRUE

\* JavaScript truthiness of a number or null
Truthy(x) == x # Null /\ x # Zero /\ ~IsNaN(x)

\* number of iterations of  for (yr = 1; yr < h; yr++)
LoopYears_exclusive(h) == IF IsFinite(h) /\ h.n > h.d THEN (h.n - 1) \div h.d ELSE 0

\* number of iterations of  for (yr = 1; yr <= h; yr++)
LoopYears(h) == IF IsFinite(h) /\ h.n >= h.d THEN h.n \div h.d ELSE 0

RECURSIVE SumFrom(_, _, _)
\* seq.slice(i - 1).reduce((s, v) => s + v, acc)
SumFrom(seq, i, acc) ==
  IF i > Len(seq) THEN acc ELSE SumFrom(seq, i + 1, Add(acc, seq[i]))

moRentOf(listing) ==
  IF Truthy(listing.rentZestimate) /\ Lt(Zero, listing.rentZestimate)
  THEN listing.rentZestimate
  ELSE Mul(listing.price, Q(8, 1000))

taxRateOf(listing) ==
  IF listing.propertyTaxRate # Null THEN listing.propertyTaxRate ELSE Q(215, 100)

\* a listing's HOA fee left out
moHoaOf_none(listing) == Zero

moHoaOf(listing) ==
  IF listing.monthlyHoaFee # Null THEN listing.monthlyHoaFee ELSE Zero

\* p[f] used as a number: a field the record does not carry reads as
\* undefined, which every arithmetic operation turns into NaN
paramNum(p, f) == IF f \in DOMAIN p THEN p[f] ELSE NaN

\* a pass whose equity point carries the balance at the start of the year
yearRow_balanceAtYearStart(listing, p, loan, emi, yr) ==
  LET price == listing.price
      moRent == moRentOf(listing)
      taxRate == taxRateOf(listing)
      moHoa == moHoaOf(listing)
      yrRentMo == Mul(moRent, Pow(Add(One, Div(p.rentIncreaseRate, I(100))), I(yr)))
      yrEffAnn == Mul(Mul(yrRentMo, Sub(One, Div(p.vacancyRate, I(100)))), I(12))
      yrVal == Mul(price, Pow(Add(One, Div(p.appreciationRate, I(100))), I(yr)))
      yrTaxAnn == Div(Mul(yrVal, taxRate), I(100))
      yrMgmtAnn == Mul(Div(Mul(yrRentMo, p.mgmtFeePct), I(100)), I(12))
      yrMort == IF Le(I(yr), p.loanTerm) THEN Mul(emi, I(12)) ELSE Zero
      yrExp == Add(Add(Add(Add(Add(yrMort, yrTaxAnn), Mul(moHoa, I(12))),
                           paramNum(p, "insuranceAnnual")),
                       Div(Mul(yrVal, p.maintenancePct), I(100))),
                   yrMgmtAnn)
      yrCf == Sub(yrEffAnn, yrExp)
      yrBal == calcRemaining(loan, p.interestRate, p.loanTerm, I(yr - 1))
  IN [yrCf |-> yrCf,
      point |-> [year |-> yr, propertyValue |-> yrVal, remainingMortgage |-> yrBal,
                 equity |-> Sub(yrVal, yrBal)]]

\* a pass that charges the mortgage payment in every year
yearRow_mortgageEveryYear(listing, p, loan, emi, yr) ==
  LET price == listing.price
      moRent == moRentOf(listing)
      taxRate == taxRateOf(listing)
      moHoa == moHoaOf(listing)
      yrRentMo == Mul(moRent, Pow(Add(One, Div(p.rentIncreaseRate, I(100))), I(yr)))
      yrEffAnn == Mul(Mul(yrRentMo, Sub(One, Div(p.vacancyRate, I(100)))), I(12))
      yrVal == Mul(price, Pow(Add(One, Div(p.appreciationRate, I(100))), I(yr)))
      yrTaxAnn == Div(Mul(yrVal, taxRate), I(100))
      yrMgmtAnn == Mul(Div(Mul(yrRentMo, p.mgmtFeePct), I(100)), I(12))
      yrMort == Mul(emi, I(12))
      yrExp == Add(Add(Add(Add(Add(yrMort, yrTaxAnn), Mul(moHoa, I(12))),
                           paramNum(p, "insuranceAnnual")),
                       Div(Mul(yrVal, p.maintenancePct), I(100))),
                   yrMgmtAnn)
      yrCf == Sub(yrEffAnn, yrExp)
      yrBal == calcRemaining(loan, p.interestRate, p.loanTerm, I(yr))
  IN [yrCf |-> yrCf,
      point |-> [year |-> yr, propertyValue |-> yrVal, remainingMortgage |-> yrBal,
                 equity |-> Sub(yrVal, yrBal)]]

\* a pass that charges the management fee on the rent after vacancy
yearRow_feeOnEffectiveRent(listing, p, loan, emi, yr) ==
  LET price == listing.price
      moRent == moRentOf(listing)
      taxRate == taxRateOf(listing)
      moHoa == moHoaOf(listing)
      yrRentMo == Mul(moRent, Pow(Add(One, Div(p.rentIncreaseRate, I(100))), I(yr)))
      yrEffAnn == Mul(Mul(yrRentMo, Sub(One, Div(p.vacancyRate, I(100)))), I(12))
      yrVal == Mul(price, Pow(Add(One, Div(p.appreciationRate, I(100))), I(yr)))
      yrTaxAnn == Div(Mul(yrVal, taxRate), I(100))
      yrMgmtAnn == Div(Mul(yrEffAnn, p.mgmtFeePct), I(100))
      yrMort == IF Le(I(yr), p.loanTerm) THEN Mul(emi, I(12)) ELSE Zero
      yrExp == Add(Add(Add(Add(Add(yrMort, yrTaxAnn), Mul(moHoa, I(12))),
                           paramNum(p, "insuranceAnnual")),
                       Div(Mul(yrVal, p.maintenancePct), I(100))),
                   yrMgmtAnn)
      yrCf == Sub(yrEffAnn, yrExp)
      yrBal == calcRemaining(loan, p.interestRate, p.loanTerm, I(yr))
  IN [yrCf |-> yrCf,
      point |-> [year |-> yr, propertyValue |-> yrVal, remainingMortgage |-> yrBal,
                 equity |-> Sub(yrVal, yrBal)]]

\* one pass of the year-by-year loop: the cash flow and the equity point of year yr
yearRow(listing, p, loan, emi, yr) ==
  LET price == listing.price
      moRent == moRentOf(listing)
      taxRate == taxRateOf(listing)
      moHoa == moHoaOf(listing)
      yrRentMo == Mul(moRent, Pow(Add(One, Div(p.rentIncreaseRate, I(100))), I(yr)))
      yrEffAnn == Mul(Mul(yrRentMo, Sub(One, Div(p.vacancyRate, I(100)))), I(12))
      yrVal == Mul(price, Pow(Add(One, Div(p.appreciationRate, I(100))), I(yr)))
      yrTaxAnn == Div(Mul(yrVal, taxRate), I(100))
      yrMgmtAnn == Mul(Div(Mul(yrRentMo, p.mgmtFeePct), I(100)), I(12))
      yrMort == IF Le(I(yr), p.loanTerm) THEN Mul(emi, I(12)) ELSE Zero
      yrExp == Add(Add(Add(Add(Add(yrMort, yrTaxAnn), Mul(moHoa, I(12))),
                           paramNum(p, "insuranceAnnual")),
                       Div(Mul(yrVal, p.maintenancePct), I(100))),
                   yrMgmtAnn)
      yrCf == Sub(yrEffAnn, yrExp)
      yrBal == calcRemaining(loan, p.interestRate, p.loanTerm, I(yr))
  IN [yrCf |-> yrCf,
      point |-> [year |-> yr, propertyValue |-> yrVal, remainingMortgage |-> yrBal,
                 equity |-> Sub(yrVal, yrBal)]]

\* irrFlows.push(netSale): the sale as a period of its own
addSale_appended(irrFlows, netSale) == Append(irrFlows, netSale)

\* irrFlows[irrFlows.length - 1] += netSale
addSale(irrFlows, netSale) ==
  [irrFlows EXCEPT ![Len(irrFlows)] = Add(@, netSale)]

\* the contribution without Math.abs
spContrib_signed(cf) == IF Lt(cf, Zero) THEN cf ELSE Zero

\* the capital the benchmark receives in a year whose cash flow is cf
spContrib(cf) == IF Lt(cf, Zero) THEN AbsQ(cf) ELSE Zero

RECURSIVE spLoop_contribThenGrow(_, _, _, _, _, _, _)
\* a benchmark in which the year's contribution grows with the portfolio
spLoop_contribThenGrow(annualCfs, holdingYears, spGrowthRate, yr, spPortfolio, spDep, spDeployedList) ==
  IF yr > LoopYears(holdingYears)
  THEN [spPortfolio |-> spPortfolio, spDep |-> spDep, spDeployedList |-> spDeployedList]
  ELSE LET contrib == spContrib(annualCfs[yr])
           grown == Mul(Add(spPortfolio[Len(spPortfolio)], contrib),
                        Add(One, Div(spGrowthRate, I(100))))
       IN spLoop_contribThenGrow(annualCfs, holdingYears, spGrowthRate, yr + 1,
                                 Append(spPortfolio, grown),
                                 Add(spDep, contrib),
                                 Append(spDeployedList, Add(spDep, contrib)))

RECURSIVE spLoop(_, _, _, _, _, _, _)
\* the S&P comparison loop from year yr on
spLoop(annualCfs, holdingYears, spGrowthRate, yr, spPortfolio, spDep, spDeployedList) ==
  IF yr > LoopYears(holdingYears)
  THEN [spPortfolio |-> spPortfolio, spDep |-> spDep, spDeployedList |-> spDeployedList]
  ELSE LET grown == Mul(spPortfolio[Len(spPortfolio)],
                        Add(One, Div(spGrowthRate, I(100))))
           contrib == spContrib(annualCfs[yr])
       IN spLoop(annualCfs, holdingYears, spGrowthRate, yr + 1,
                 Append(spPortfolio, Add(grown, contrib)),
                 Add(spDep, contrib),
                 Append(spDeployedList, Add(spDep, contrib)))

RECURSIVE propLoop_beforeSellingCosts(_, _, _, _, _, _, _)
\* a liquidation value that does not deduct the selling costs
propLoop_beforeSellingCosts(annualCfs, equityList, holdingYears, sellFrac, yr, cumulOp, propWealth) ==
  IF yr > LoopYears(holdingYears) THEN propWealth
  ELSE LET cum == Add(cumulOp, annualCfs[yr])
           ev == equityList[yr]
           liq == Add(Sub(ev.propertyValue, ev.remainingMortgage), cum)
       IN propLoop_beforeSellingCosts(annualCfs, equityList, holdingYears, sellFrac, yr + 1,
                                      cum, Append(propWealth, liq))

RECURSIVE propLoop_noCashFlows(_, _, _, _, _, _, _)
\* a liquidation value that leaves the cumulative cash flow out
propLoop_noCashFlows(annualCfs, equityList, holdingYears, sellFrac, yr, cumulOp, propWealth) ==
  IF yr > LoopYears(holdingYears) THEN propWealth
  ELSE LET ev == equityList[yr]
           liq == Sub(Sub(ev.propertyValue, ev.remainingMortgage),
                      Mul(sellFrac, ev.propertyValue))
       IN propLoop_noCashFlows(annualCfs, equityList, holdingYears, sellFrac, yr + 1,
                               cumulOp, Append(propWealth, liq))

RECURSIVE propLoop(_, _, _, _, _, _, _)
\* the liquidation-value loop from year yr on
propLoop(annualCfs, equityList, holdingYears, sellFrac, yr, cumulOp, propWealth) ==
  IF yr > LoopYears(holdingYears) THEN propWealth
  ELSE LET cum == Add(cumulOp, annualCfs[yr])
           ev == equityList[yr]
           liq == Add(Sub(Sub(ev.propertyValue, ev.remainingMortgage),
                          Mul(sellFrac, ev.propertyValue)),
                      cum)
       IN propLoop(annualCfs, equityList, holdingYears, sellFrac, yr + 1, cum,
                   Append(propWealth, liq))

analyze(listing, p) ==
  LET price == listing.price
      moRent == moRentOf(listing)
      taxRate == taxRateOf(listing)
      moHoa == moHoaOf(listing)
      \* upfront
      down == Div(Mul(price, p.downPaymentPct), I(100))
      buyCc == Div(Mul(price, p.closingCostsPct), I(100))
      initInv == Add(down, buyCc)
      loan == Sub(price, down)
      emi == calcEmi(loan, p.interestRate, p.loanTerm)
      \* year-1 monthly
      moTax == Div(Div(Mul(price, taxRate), I(100)), I(12))
      moIns == Div(paramNum(p, "insuranceAnnual"), I(12))
      moMaint == Div(Div(Mul(price, p.maintenancePct), I(100)), I(12))
      moMgmt == Div(Mul(moRent, p.mgmtFeePct), I(100))
      effRent == Mul(moRent, Sub(One, Div(p.vacancyRate, I(100))))
      moExp == Add(Add(Add(Add(Add(emi, moTax), moHoa), moIns), moMaint), moMgmt)
      moCf == Sub(effRent, moExp)
      yr1Opex == Mul(Add(Add(Add(Add(moTax, moHoa), moIns), moMaint), moMgmt), I(12))
      yr1Noi == Sub(Mul(effRent, I(12)), yr1Opex)
      capRate == IF Truthy(price) THEN Mul(Div(yr1Noi, price), I(100)) ELSE Zero
      coc == IF Truthy(initInv) THEN Mul(Div(Mul(moCf, I(12)), initInv), I(100)) ELSE Zero
      \* year-by-year
      nYears == LoopYears(p.holdingYears)
      rows == [yr \in 1..nYears |-> yearRow(listing, p, loan, emi, yr)]
      annualCfs == [yr \in 1..nYears |-> rows[yr].yrCf]
      equityList == [yr \in 1..nYears |-> rows[yr].point]
      \* sale
      futureVal == Mul(price, Pow(Add(One, Div(p.appreciationRate, I(100))), p.holdingYears))
      remMort == calcRemaining(loan, p.interestRate, p.loanTerm, p.holdingYears)
      sellCc == Div(Mul(futureVal, p.sellingCostsPct), I(100))
      netSale == Sub(Sub(futureVal, remMort), sellCc)
      irrFlows == addSale(<<Neg(initInv)>> \o annualCfs, netSale)
      totalProfit == Sub(SumFrom(irrFlows, 2, Zero), initInv)
      annRoi == IF Truthy(initInv) /\ Truthy(p.holdingYears)
                THEN Mul(Div(Div(totalProfit, initInv), p.holdingYears), I(100))
                ELSE Zero
      \* S&P comparison
      sellFrac == Div(p.sellingCostsPct, I(100))
      sp == spLoop(annualCfs, p.holdingYears, p.spGrowthRate, 1, <<initInv>>, initInv,
                   <<initInv>>)
      \* property path: liquidation value
      propWealth == propLoop(annualCfs, equityList, p.holdingYears, sellFrac, 1, Zero,
                             <<Sub(down, Mul(sellFrac, price))>>)
      spProfit == Sub(sp.spPortfolio[Len(sp.spPortfolio)], sp.spDep)
  IN [initialInvestment |-> initInv,
      downPayment |-> down,
      buyClosing |-> buyCc,
      loanAmount |-> loan,
      monthlyEmi |-> emi,
      monthlyCashFlow |-> moCf,
      annualCashFlow |-> Mul(moCf, I(12)),
      totalMonthlyExpenses |-> moExp,
      effectiveMonthlyRent |-> effRent,
      capRate |-> capRate,
      cashOnCash |-> coc,
      futurePropertyValue |-> futureVal,
      remainingMortgage |-> remMort,
      sellClosing |-> sellCc,
      netSaleProceeds |-> netSale,
      totalProfit |-> totalProfit,
      annualizedRoi |-> annRoi,
      irrFlows |-> irrFlows,
      equityGrowth |-> equityList,
      annualCfs |-> annualCfs,
      propWealthSeries |-> propWealth,
      spPortfolioSeries |-> sp.spPortfolio,
      spDeployedSeries |-> sp.spDeployedList,
      spDeployed |-> sp.spDep,
      spProfit |-> spProfit]

(***************************************************************************)
(* State.  Three machines share the module; each specification drives one  *)
(* of them and leaves the others idle.                                     *)
(*   amArgs, amDone, amEmi, amRem : a caller of calcEmi / calcRemaining    *)
(*   listing, params, called, res : a caller of analyze(listing, params);  *)
(*                                  res is the returned record once called *)
(*   cashFlows, irr               : a call of computeIrr(cashFlows) and    *)
(*                                  its solver state                       *)
(***************************************************************************)
VARIABLES amArgs, amDone, amEmi, amRem, listing, params, called, res, cashFlows, irr,
          raw, pgParams, priceRange, selectedTypes, filtered, results, arrays, heap

amortVars == <<amArgs, amDone, amEmi, amRem>>

analyzeVars == <<listing, params, called, res>>

irrVars == <<cashFlows, irr>>

pageVars == <<raw, pgParams, priceRange, selectedTypes, filtered, results, arrays, heap>>

vars == <<amArgs, amDone, amEmi, amRem, listing, params, called, res, cashFlows, irr,
          raw, pgParams, priceRange, selectedTypes, filtered, results, arrays, heap>>

(***************************************************************************)
(* Inputs of the amortization calls.  Terms and elapsed times are whole    *)
(* months expressed in years, so that years * 12 is an integer exponent.   *)
(* Positive rates are paired with the terms whose compound factor          *)
(* (1 + i)^N stays exactly representable.                                  *)
(***************************************************************************)
MaxTermMonths == 36

MaxPaidMonths == 40

Principals == {I(-60), Zero, I(60), I(120)}

ZeroRateTerms == {<<Zero, Q(m, 12)>> : m \in {1, 6, 12, 18, 24, MaxTermMonths}}

PosRateTerms ==
  {<<I(6), Q(m, 12)>> : m \in 1..3}
    \cup {<<I(600), Q(m, 12)>> : m \in {6, 12}}
    \cup {<<I(1200), Q(m, 12)>> : m \in {6, 12, 18, 24}}

PaidYears == {Q(m, 12) : m \in 0..MaxPaidMonths}

NoResult == [none |-> TRUE]

IdleAnalyze ==
  /\ listing = [price |-> Zero, rentZestimate |-> Null, propertyTaxRate |-> Null,
                monthlyHoaFee |-> Null]
  /\ params = [none |-> TRUE]
  /\ called = FALSE
  /\ res = NoResult

IdleIrr ==
  /\ cashFlows = <<>>
  /\ irr = [irrInit EXCEPT !.pc = "idle"]

\* the page before its data has loaded
IdlePage ==
  /\ raw = <<>>
  /\ pgParams = [none |-> TRUE]
  /\ priceRange = <<Zero, Zero>>
  /\ selectedTypes = <<>>
  /\ filtered = <<>>
  /\ results = <<>>
  /\ arrays = <<>>
  /\ heap = [space |-> 0, top |-> 0]

IdleAmort ==
  /\ amArgs = [principal |-> Zero, annualRate |-> Zero, years |-> One, yearsPaid |-> Zero]
  /\ amDone = {}
  /\ amEmi = Zero
  /\ amRem = Zero

InitAmort ==
  /\ IdleAnalyze
  /\ IdleIrr
  /\ IdlePage
  /\ \E pr \in Principals, rt \in ZeroRateTerms \cup PosRateTerms, e \in PaidYears :
       amArgs = [principal |-> pr, annualRate |-> rt[1], years |-> rt[2], yearsPaid |-> e]
  /\ amDone = {}
  /\ amEmi = Zero
  /\ amRem = Zero

CallCalcEmi ==
  /\ "emi" \notin amDone
  /\ amEmi' = calcEmi(amArgs.principal, amArgs.annualRate, amArgs.years)
  /\ amDone' = amDone \cup {"emi"}
  /\ UNCHANGED <<amArgs, amRem>>
  /\ UNCHANGED <<analyzeVars, irrVars, pageVars>>

CallCalcRemaining ==
  /\ "rem" \notin amDone
  /\ amRem' = calcRemaining(amArgs.principal, amArgs.annualRate, amArgs.years, amArgs.yearsPaid)
  /\ amDone' = amDone \cup {"rem"}
  /\ UNCHANGED <<amArgs, amEmi>>
  /\ UNCHANGED <<analyzeVars, irrVars, pageVars>>

NextAmort == CallCalcEmi \/ CallCalcRemaining

SpecAmort == InitAmort /\ [][NextAmort]_vars

(***************************************************************************)
(* Inputs of analyze.  Listings and parameter records are combined from    *)
(* small profiles; percentages are plain numbers (20 means 20%).           *)
(***************************************************************************)
MaxHoldingYears == 3

Listings ==
  {[price |-> pr, rentZestimate |-> rz, propertyTaxRate |-> th[1], monthlyHoaFee |-> th[2]] :
     pr \in {Zero, I(100)}, rz \in {Null, Zero, I(-1), I(2)},
     th \in {<<Null, Null>>, <<One, Q(1, 2)>>}}

\* <<downPaymentPct, closingCostsPct>>
DownProfiles == {<<Zero, Zero>>, <<I(20), I(5)>>, <<I(100), Zero>>, <<I(150), I(5)>>}

\* <<appreciationRate, rentIncreaseRate, spGrowthRate>>
GrowthProfiles == {<<Zero, Zero, Zero>>, <<I(10), I(10), I(10)>>, <<I(-10), Zero, I(10)>>}

\* <<interestRate, loanTerm, growth profile>>: a positive rate comes with the
\* terms and growth rates that keep every figure exactly representable
LoanProfiles ==
  {<<Zero, I(t), gp>> : t \in 0..(MaxHoldingYears + 1), gp \in GrowthProfiles}
    \cup {<<I(1200), I(t), <<Zero, Zero, Zero>>>> : t \in {0, 1}}

\* <<sellingCostsPct, maintenancePct, vacancyRate, insuranceAnnual, mgmtFeePct>>
CostProfiles ==
  {<<Zero, Zero, Zero, Zero, Zero>>, <<I(10), One, I(10), I(12), I(10)>>}

RentEstimatePcts == {Q(55, 100), Q(8, 10)}

ParamSets ==
  {[interestRate |-> lp[1], loanTerm |-> lp[2], downPaymentPct |-> dp[1],
    closingCostsPct |-> dp[2], sellingCostsPct |-> cp[1], holdingYears |-> I(hy),
    appreciationRate |-> lp[3][1], rentIncreaseRate |-> lp[3][2], maintenancePct |-> cp[2],
    vacancyRate |-> cp[3], insuranceAnnual |-> cp[4], mgmtFeePct |-> cp[5],
    spGrowthRate |-> lp[3][3], rentEstimatePct |-> rp] :
     lp \in LoanProfiles, dp \in DownProfiles, cp \in CostProfiles,
     hy \in 0..MaxHoldingYears, rp \in RentEstimatePcts}

Init ==
  /\ IdleAmort
  /\ IdleIrr
  /\ IdlePage
  /\ listing \in Listings
  /\ params \in ParamSets
  /\ called = FALSE
  /\ res = NoResult

CallAnalyze ==
  /\ ~called
  /\ res' = analyze(listing, params)
  /\ called' = TRUE
  /\ UNCHANGED <<listing, params>>
  /\ UNCHANGED <<amortVars, irrVars, pageVars>>

Next == CallAnalyze

Spec == Init /\ [][Next]_vars

(***************************************************************************)
(* Inputs of computeIrr: every sequence of at most MaxFlowLen flows.       *)
(***************************************************************************)
MaxFlowLen == 3

FlowValues == {I(-100), I(-1), Zero, I(20), I(110)}

FlowSeqs == UNION {[1..len -> FlowValues] : len \in 0..MaxFlowLen}

InitIrr ==
  /\ IdleAmort
  /\ IdleAnalyze
  /\ IdlePage
  /\ cashFlows \in FlowSeqs
  /\ irr = irrInit

IrrSigns ==
  /\ irr.pc = "signs"
  /\ irr' = irrSigns(cashFlows, irr)
  /\ UNCHANGED <<cashFlows, amortVars, analyzeVars, pageVars>>

IrrBracket ==
  /\ irr.pc = "bracket"
  /\ irr' = irrBracket(cashFlows, irr)
  /\ UNCHANGED <<cashFlows, amortVars, analyzeVars, pageVars>>

IrrWiden ==
  /\ irr.pc = "widen"
  /\ irr' = irrWiden(cashFlows, irr)
  /\ UNCHANGED <<cashFlows, amortVars, analyzeVars, pageVars>>

IrrBisect ==
  /\ irr.pc = "bisect"
  /\ irr' = irrBisect(cashFlows, irr)
  /\ UNCHANGED <<cashFlows, amortVars, analyzeVars, pageVars>>

IrrClamp ==
  /\ irr.pc = "clamp"
  /\ irr' = irrClamp(irr)
  /\ UNCHANGED <<cashFlows, amortVars, analyzeVars, pageVars>>

NextIrr == IrrSigns \/ IrrBracket \/ IrrWiden \/ IrrBisect \/ IrrClamp

SpecIrr == InitIrr /\ [][NextIrr]_vars

(***************************************************************************)
(* The page (Home): the loaded listings raw, the params record, the price  *)
(* range and the selected home types are its state; filtered and results   *)
(* are the values memoized by useMemo.  arrays gives, for every entry of   *)
(* results, the identities of the arrays the result holds.  heap is the    *)
(* allocator of array identities: the arrays of a render are allocated in  *)
(* the half of the heap that the values of the previous render do not      *)
(* occupy, which is reclaimed by the next render.  A handler and the       *)
(* re-render it causes are one step.  Figures are drawn from the exactly   *)
(* representable domain of analyze rather than from the sliders' ranges.   *)
(***************************************************************************)
\* the array literals of one call of analyze, in allocation order
ArrayLiterals ==
  <<"irrFlows", "annualCfs", "equityList", "spPortfolio", "spDeployedList", "propWealth">>

\* the listings of listings.json
Catalogue ==
  {[zpid |-> "a", price |-> I(100), homeType |-> "CONDO", rentZestimate |-> I(2),
    propertyTaxRate |-> Null, monthlyHoaFee |-> Null],
   [zpid |-> "b", price |-> I(100), homeType |-> "SINGLE_FAMILY", rentZestimate |-> Null,
    propertyTaxRate |-> One, monthlyHoaFee |-> Q(1, 2)],
   [zpid |-> "c", price |-> I(200), homeType |-> "SINGLE_FAMILY", rentZestimate |-> I(2),
    propertyTaxRate |-> Null, monthlyHoaFee |-> Null]}

\* the number of array identities in one half of the heap
MaxArrays == Cardinality(Catalogue) * Len(ArrayLiterals)

\* the catalogue in every order
Raws ==
  {r \in [1..Cardinality(Catalogue) -> Catalogue] :
     \A j, k \in 1..Len(r) : j # k => r[j] # r[k]}

\* the home types in sort() order
TypeOrder == <<"CONDO", "SINGLE_FAMILY">>

PriceStops == {I(100), I(200)}

\* the fields of DEFAULT_PARAMS; rentEstimatePct as set once the data loaded
PageDefaults(rentEstimatePct) ==
  [interestRate |-> Zero, loanTerm |-> I(2), downPaymentPct |-> I(20),
   closingCostsPct |-> I(5), sellingCostsPct |-> I(10), holdingYears |-> I(2),
   appreciationRate |-> I(10), rentIncreaseRate |-> I(10), maintenancePct |-> One,
   vacancyRate |-> I(10), insurancePct |-> Q(1, 2), mgmtFeePct |-> Zero,
   spGrowthRate |-> I(10), rentEstimatePct |-> rentEstimatePct]

\* the patches set({key: v}) of the sidebar's controls
Patches ==
  {<<"holdingYears", I(1)>>, <<"holdingYears", I(2)>>, <<"downPaymentPct", I(50)>>,
   <<"downPaymentPct", I(20)>>, <<"insuranceAnnual", I(12)>>}

\* { ...p, ...patch }
applyPatch(p, patch) ==
  [f \in DOMAIN p \cup {patch[1]} |-> IF f = patch[1] THEN patch[2] ELSE p[f]]

includes(seq, x) == \E k \in 1..Len(seq) : seq[k] = x

\* [...new Set(raw.map((l) => l.homeType))].sort()
homeTypesOf(listings) ==
  LET present(t) == \E k \in 1..Len(listings) : listings[k].homeType = t
  IN SelectSeq(TypeOrder, present)

SeqMin(seq) == CHOOSE x \in {seq[k] : k \in 1..Len(seq)} :
                 \A k \in 1..Len(seq) : Le(x, seq[k])

SeqMax(seq) == CHOOSE x \in {seq[k] : k \in 1..Len(seq)} :
                 \A k \in 1..Len(seq) : Le(seq[k], x)

filterListings(listings, range, types) ==
  LET keep(l) == Le(range[1], l.price) /\ Le(l.price, range[2]) /\ includes(types, l.homeType)
  IN SelectSeq(listings, keep)

\* the identities of the arrays of the array literals of one call, by
\* allocation order: the next free ones of the current half of the heap
newArrays(live) ==
  [k \in 1..Len(ArrayLiterals) |-> live.space * MaxArrays + live.top + k]

\* the identities of the arrays that the returned record holds
resultArrays(live) ==
  [annualCfs |-> newArrays(live)[2], equityGrowth |-> newArrays(live)[3],
   spPortfolioSeries |-> newArrays(live)[4], spDeployedSeries |-> newArrays(live)[5],
   propWealthSeries |-> newArrays(live)[6]]

\* a call that writes its fallback rent back into the listing
analyzeLeaves_normalising(l, p) ==
  [listing |-> [l EXCEPT !.rentZestimate = moRentOf(l)], p |-> p]

\* the arguments as a call of analyze leaves them: it assigns to no field
\* of listing or p
analyzeLeaves(l, p) == [listing |-> l, p |-> p]

\* the batch after the call for listing l: the call is recorded with the
\* arguments it received and the arrays it allocated
afterCall(acc, l) ==
  [calls |-> Append(acc.calls, [zpid |-> l.zpid, listing |-> l, p |-> acc.p,
                                arrays |-> resultArrays(acc.heap)]),
   listings |-> Append(acc.listings, analyzeLeaves(l, acc.p).listing),
   p |-> analyzeLeaves(l, acc.p).p,
   heap |-> [acc.heap EXCEPT !.top = @ + Len(ArrayLiterals)]]

RECURSIVE forEachCall(_, _, _)
\* filtered.forEach((l) => map.set(l.zpid, analyze(l, params))) from index k
\* on: the calls made, in order
forEachCall(ls, k, acc) ==
  IF k > Len(ls) THEN acc ELSE forEachCall(ls, k + 1, afterCall(acc, ls[k]))

\* the call whose result a map with results cached per price holds for key zpid
entryCall_cachedByPrice(calls, zpid) ==
  LET last == CHOOSE k \in 1..Len(calls) :
                /\ calls[k].zpid = zpid
                /\ \A j \in (k + 1)..Len(calls) : calls[j].zpid # zpid
  IN CHOOSE k \in 1..Len(calls) :
       /\ calls[k].listing.price = calls[last].listing.price
       /\ \A j \in 1..(k - 1) : calls[j].listing.price # calls[last].listing.price

\* the call whose result the map holds for key zpid: map.set keeps the last
entryCall(calls, zpid) ==
  CHOOSE k \in 1..Len(calls) :
    /\ calls[k].zpid = zpid
    /\ \A j \in (k + 1)..Len(calls) : calls[j].zpid # zpid

\* the Map built by the batch
resultsMap(calls) ==
  [zpid \in {calls[k].zpid : k \in 1..Len(calls)} |->
     analyze(calls[entryCall(calls, zpid)].listing, calls[entryCall(calls, zpid)].p)]

\* the arrays held by the entries of the Map
arraysMap(calls) ==
  [zpid \in {calls[k].zpid : k \in 1..Len(calls)} |-> calls[entryCall(calls, zpid)].arrays]

\* the dependency list of the filtered memo
filteredDeps == {"raw", "priceRange", "selectedTypes"}

\* a results memo that depends on filtered only
resultsDeps_noParams == {"filtered"}

\* the dependency list of the results memo
resultsDeps == {"filtered", "params"}

\* the listing l as the batch b over the listings f left it
writtenBack(l, f, b) ==
  IF \E j \in 1..Len(f) : f[j].zpid = l.zpid
  THEN b.listings[CHOOSE j \in 1..Len(f) : f[j].zpid = l.zpid]
  ELSE l

\* the page once the results memo was recomputed by the batch b over f
withResults(st, f, b) ==
  [raw |-> [k \in 1..Len(st.raw) |-> writtenBack(st.raw[k], f, b)],
   pgParams |-> b.p, priceRange |-> st.priceRange,
   selectedTypes |-> st.selectedTypes, filtered |-> b.listings,
   results |-> resultsMap(b.calls), arrays |-> arraysMap(b.calls), heap |-> b.heap]

\* the batch of calls of the results memo over the listings f
resultsBatch(st, f) ==
  forEachCall(f, 1, [calls |-> <<>>, listings |-> <<>>, p |-> st.pgParams,
                     heap |-> [space |-> 1 - st.heap.space, top |-> 0]])

\* the results memo: recomputed when one of its dependencies is new
renderResults(st, changed, f) ==
  IF \/ "filtered" \in resultsDeps /\ changed \cap filteredDeps # {}
     \/ "params" \in resultsDeps /\ "params" \in changed
  THEN withResults(st, f, resultsBatch(st, f))
  ELSE [st EXCEPT !.filtered = f]

\* the filtered memo: recomputed when one of its dependencies is new
renderFiltered(st, changed) ==
  IF changed \cap filteredDeps # {}
  THEN filterListings(st.raw, st.priceRange, st.selectedTypes)
  ELSE st.filtered

\* a render after the pieces of state named in changed were replaced: the
\* filtered memo, then the results memo
render(st, changed) == renderResults(st, changed, renderFiltered(st, changed))

pageState ==
  [raw |-> raw, pgParams |-> pgParams, priceRange |-> priceRange,
   selectedTypes |-> selectedTypes, filtered |-> filtered, results |-> results,
   arrays |-> arrays, heap |-> heap]

\* the page after the step is the rendered state st
commit(st) ==
  /\ raw' = st.raw
  /\ pgParams' = st.pgParams
  /\ priceRange' = st.priceRange
  /\ selectedTypes' = st.selectedTypes
  /\ filtered' = st.filtered
  /\ results' = st.results
  /\ arrays' = st.arrays
  /\ heap' = st.heap

\* the priceMinMax memo
priceMinMaxOf(listings) ==
  IF Len(listings) = 0 THEN <<Zero, I(1000000)>>
  ELSE <<SeqMin([k \in 1..Len(listings) |-> listings[k].price]),
         SeqMax([k \in 1..Len(listings) |-> listings[k].price])>>

\* the first render: no data yet, the default params, nothing to analyze
InitPage ==
  /\ IdleAmort
  /\ IdleAnalyze
  /\ IdleIrr
  /\ raw = <<>>
  /\ pgParams = PageDefaults(Q(55, 100))
  /\ priceRange = <<Zero, I(10000000)>>
  /\ selectedTypes = <<>>
  /\ filtered = <<>>
  /\ results = <<>>
  /\ arrays = <<>>
  /\ heap = [space |-> 0, top |-> 0]

\* data.listings.filter((l) => l.price > 0)
pricedListings(data) ==
  LET priced(l) == Lt(Zero, l.price)
  IN SelectSeq(data, priced)

\* the state the load effect sets once the data arrived; the rent share it
\* stores in params.rentEstimatePct is not read by analyze
loaded(st, listings) ==
  [st EXCEPT !.raw = listings,
             !.priceRange = <<SeqMin([k \in 1..Len(listings) |-> listings[k].price]),
                              SeqMax([k \in 1..Len(listings) |-> listings[k].price])>>,
             !.selectedTypes = homeTypesOf(listings),
             !.pgParams = applyPatch(st.pgParams, <<"rentEstimatePct", Q(55, 100)>>)]

\* a toggle that passes next on even when it is empty
toggleType_noReset(homeTypes, selected, t) ==
  LET other(x) == x # t
  IN IF includes(selected, t) THEN SelectSeq(selected, other)
     ELSE Append(selected, t)

\* the selection after a click on the button of home type t
toggleType(homeTypes, selected, t) ==
  LET other(x) == x # t
      next == IF includes(selected, t) THEN SelectSeq(selected, other)
              ELSE Append(selected, t)
  IN IF Len(next) # 0 THEN next ELSE homeTypes

\* the events of the page as it is: the data arrives (once, the effect has
\* no dependencies), a control is set to a value (a params patch), the
\* Price Min or Price Max slider is moved to a stop within priceMinMax, the
\* button of a home type is clicked
PageEvents ==
  {<<"load", data>> : data \in {d \in Raws : Len(raw) = 0}}
    \cup {<<"setParam", patch>> : patch \in Patches}
    \cup {<<kind, v>> : kind \in {"setPriceMin", "setPriceMax"},
                       v \in {x \in PriceStops : /\ Le(priceMinMaxOf(raw)[1], x)
                                                  /\ Le(x, priceMinMaxOf(raw)[2])}}
    \cup {<<"toggleType", homeTypesOf(raw)[k]>> : k \in 1..Len(homeTypesOf(raw))}

\* the state the handler of event ev sets
\*   load:        setRaw, setPriceRange, setSelectedTypes, setParams
\*   setParam:    onChange({ ...p, ...patch })
\*   setPriceMin: onPriceRangeChange([v, priceRange[1]])
\*   setPriceMax: onPriceRangeChange([priceRange[0], v])
\*   toggleType:  onTypesChange(next.length ? next : homeTypes)
handled(ev) ==
  CASE ev[1] = "load" -> loaded(pageState, pricedListings(ev[2]))
    [] ev[1] = "setParam" -> [pageState EXCEPT !.pgParams = applyPatch(pgParams, ev[2])]
    [] ev[1] = "setPriceMin" -> [pageState EXCEPT !.priceRange = <<ev[2], priceRange[2]>>]
    [] ev[1] = "setPriceMax" -> [pageState EXCEPT !.priceRange = <<priceRange[1], ev[2]>>]
    [] ev[1] = "toggleType" ->
         [pageState EXCEPT
            !.selectedTypes = toggleType(homeTypesOf(raw), selectedTypes, ev[2])]

\* the pieces of state the handler of event ev replaces
changedBy(ev) ==
  CASE ev[1] = "load" -> {"raw", "priceRange", "selectedTypes", "params"}
    [] ev[1] = "setParam" -> {"params"}
    [] ev[1] \in {"setPriceMin", "setPriceMax"} -> {"priceRange"}
    [] ev[1] = "toggleType" -> {"selectedTypes"}

\* an event of the page: its handler sets the state and the page renders again
HandleEvent ==
  /\ \E ev \in PageEvents :
       \E st \in {render(handled(ev), changedBy(ev))} : commit(st)
  /\ UNCHANGED <<amortVars, analyzeVars, irrVars>>

NextPage == HandleEvent

SpecPage == InitPage /\ [][NextPage]_vars

(***************************************************************************)
(* The consumers of a result: the fields of AnalysisResult each reads.     *)
(***************************************************************************)
\* the field names of the record analyze returns; the model keeps the
\* argument of computeIrr, irrFlows, where the record has irr
returnedFields(r) == (DOMAIN r \ {"irrFlows"}) \cup {"irr"}

\* the keys the Sort By control offers
SortKeys ==
  {"monthlyCashFlow", "capRate", "irr", "cashOnCash", "totalProfit", "annualizedRoi"}

\* the page's hide-flagged filter and sort
sortedReads(hideFlagged, sortBy) ==
  (IF hideFlagged THEN {"dataFlags"} ELSE {}) \cup {sortBy}

\* the summary cards and the rows of PortfolioTable
PortfolioTableReads == {"irr", "monthlyCashFlow", "cashOnCash", "capRate"}

\* PropertyDetail: the metrics, the data-quality flag list, the cards
PropertyDetailReads ==
  {"monthlyCashFlow", "capRate", "cashOnCash", "irr", "totalProfit", "dataFlags",
   "downPayment", "buyClosing", "initialInvestment", "effectiveMonthlyRent",
   "monthlyEmi", "totalMonthlyExpenses", "futurePropertyValue", "remainingMortgage",
   "sellClosing", "netSaleProceeds"}

ChartsReads ==
  {"annualCfs", "equityGrowth", "propWealthSeries", "spPortfolioSeries",
   "spDeployedSeries", "spDeployed", "spProfit", "totalProfit"}

PropertyMapReads == {"monthlyCashFlow", "effectiveMonthlyRent", "capRate", "irr"}

\* every field some consumer reads of a result, whatever the Sort By key
\* and the Hide Flagged checkbox
ConsumerReads ==
  UNION {sortedReads(hideFlagged, sortBy) : hideFlagged \in BOOLEAN, sortBy \in SortKeys}
    \cup PortfolioTableReads \cup PropertyDetailReads \cup ChartsReads
    \cup PropertyMapReads

(***************************************************************************)
(* Properties of calcEmi and calcRemaining, checked under SpecAmort.       *)
(***************************************************************************)

\* C6: with annual rate exactly 0, positive principal P and positive term Y,
\* calcEmi(P, 0, Y) = P / (Y*12), and calcRemaining(P, 0, Y, e) = P * (1 - e/Y)
\* for 0 <= e < Y.  Stated without division: twelve times Y payments make up
\* P, and Y times the balance is P times the years left.
C6_ZeroRateStraightLine ==
  LET P == amArgs.principal
      Y == amArgs.years
      e == amArgs.yearsPaid
  IN (amArgs.annualRate = Zero /\ Lt(Zero, P) /\ Lt(Zero, Y)) =>
       /\ "emi" \in amDone => Mul(amEmi, Mul(Y, I(12))) = P
       /\ ("rem" \in amDone /\ Le(Zero, e) /\ Lt(e, Y)) =>
            Mul(amRem, Y) = Mul(P, Sub(Y, e))

\* a zero-rate loan of 120 over 18 months, 6 months in: both calls returned
C6_Witness ==
  /\ amArgs = [principal |-> I(120), annualRate |-> Zero, years |-> Q(18, 12),
               yearsPaid |-> Q(6, 12)]
  /\ amDone = {"emi", "rem"}
  /\ amEmi = Q(120, 18)
  /\ amRem = I(80)

\* C7: for positive principal P, rate r >= 0 and positive term T,
\* calcRemaining(P, r, T, 0) = P, calcRemaining(P, r, T, e) = 0 for e >= T,
\* and calcRemaining is non-negative and non-increasing in the elapsed years.
C7_RemainingBalanceShape ==
  LET P == amArgs.principal
      r == amArgs.annualRate
      T == amArgs.years
      e == amArgs.yearsPaid
  IN ("rem" \in amDone /\ Lt(Zero, P) /\ Le(Zero, r) /\ Lt(Zero, T)) =>
       /\ e = Zero => amRem = P
       /\ Le(T, e) => amRem = Zero
       /\ Le(Zero, amRem)
       /\ \A e2 \in PaidYears : Le(e, e2) => Le(calcRemaining(P, r, T, e2), amRem)

\* half-way through a one-year loan at a positive rate the balance lies
\* strictly between 0 and the principal
C7_Witness ==
  /\ amArgs = [principal |-> I(120), annualRate |-> I(1200), years |-> One,
               yearsPaid |-> Q(1, 2)]
  /\ "rem" \in amDone
  /\ Lt(Zero, amRem)
  /\ Lt(amRem, amArgs.principal)

(***************************************************************************)
(* Properties of computeIrr, checked under SpecIrr.                        *)
(***************************************************************************)

\* C4: computeIrr returns exactly 0 for every cash-flow sequence with no
\* strictly positive entry or no strictly negative entry (the empty and the
\* all-zero sequences included), and it does so without evaluating the NPV
\* at any bracket end.
C4_NoSignChangeReturnsZero ==
  LET noPos == \A t \in 1..Len(cashFlows) : Le(cashFlows[t], Zero)
      noNeg == \A t \in 1..Len(cashFlows) : Le(Zero, cashFlows[t])
  IN (irr.pc # "idle" /\ (noPos \/ noNeg)) =>
       /\ irr.pc \in {"signs", "done"}
       /\ irr.npvCalls = 0
       /\ irr.pc = "done" => irr.ret = RZero

\* computeIrr has returned on an outflow that is never followed by an inflow
C4_Witness ==
  /\ cashFlows = <<I(-100), Zero, I(-1)>>
  /\ irr.pc = "done"
  /\ irr.ret = RZero
  /\ irr.npvCalls = 0

\* C5: computeIrr on the single-period sequence [-100, 110] returns a value
\* within 0.01 of 10 (percent): 999 <= 100 * ret <= 1001.
C5_SinglePeriodTenPercent ==
  (cashFlows = <<I(-100), I(110)>> /\ irr.pc = "done") =>
    /\ RLe(RInt(999), RMul(irr.ret, RInt(100)))
    /\ RLe(RMul(irr.ret, RInt(100)), RInt(1001))

\* computeIrr has returned on [-100, 110] after bracketing and all the
\* bisection iterations
C5_Witness ==
  /\ cashFlows = <<I(-100), I(110)>>
  /\ irr.pc = "done"
  /\ irr.i = BisectIterations
  /\ irr.npvCalls = BisectIterations + 2
  /\ irr.ret # RZero

(***************************************************************************)
(* Properties of analyze, checked under Spec.                              *)
(***************************************************************************)

\* C1: for every listing and every params record with integer
\* holdingYears >= 0 (holdingYears = 0 included), the result of analyze
\* satisfies totalProfit = (sum of annualCfs) + netSaleProceeds
\* - initialInvestment.
C1_TotalProfitIdentity ==
  called =>
    res.totalProfit =
      Sub(Add(SumFrom(res.annualCfs, 1, Zero), res.netSaleProceeds), res.initialInvestment)

\* a zero-year holding whose sale proceeds are lost from totalProfit
C1_Witness ==
  /\ called
  /\ params.holdingYears = Zero
  /\ res.annualCfs = <<>>
  /\ res.netSaleProceeds # Zero
  /\ res.totalProfit = Neg(res.initialInvestment)

\* C2: for every integer holdingYears >= 0, propWealthSeries,
\* spPortfolioSeries and spDeployedSeries have length holdingYears + 1, and
\* annualCfs and equityGrowth have length holdingYears, entry y of
\* equityGrowth being the point of year y.
C2_SeriesLengths ==
  called =>
    LET n == params.holdingYears.n
    IN /\ Len(res.propWealthSeries) = n + 1
       /\ Len(res.spPortfolioSeries) = n + 1
       /\ Len(res.spDeployedSeries) = n + 1
       /\ Len(res.annualCfs) = n
       /\ Len(res.equityGrowth) = n
       /\ \A y \in 1..n : res.equityGrowth[y].year = y

\* a two-year holding: two yearly entries, three points per series
C2_Witness ==
  /\ called
  /\ params.holdingYears = I(2)
  /\ Len(res.annualCfs) = 2
  /\ Len(res.propWealthSeries) = 3
  /\ Len(res.spPortfolioSeries) = 3

\* C3: spDeployedSeries[0] = initialInvestment and spDeployedSeries[y] >=
\* spDeployedSeries[y-1] for every year y in 1..holdingYears, whatever the
\* signs of the annual cash flows.  (Index y of the code is y + 1 here.)
C3_DeployedNonDecreasing ==
  called =>
    /\ res.spDeployedSeries[1] = res.initialInvestment
    /\ \A y \in 1..params.holdingYears.n :
         Le(res.spDeployedSeries[y], res.spDeployedSeries[y + 1])

\* a holding with a negative year followed by a positive year: the deployed
\* capital rose in the first and stayed in the second
C3_Witness ==
  /\ called
  /\ Len(res.annualCfs) >= 2
  /\ Lt(res.annualCfs[1], Zero)
  /\ Lt(Zero, res.annualCfs[2])
  /\ Lt(res.spDeployedSeries[1], res.spDeployedSeries[2])
  /\ res.spDeployedSeries[2] = res.spDeployedSeries[3]

\* C8: calcEmi returns 0 whenever principal <= 0, for every rate and term
\* (the zero rate included), so a down payment of 100% or more yields
\* monthlyEmi = 0 in analyze.
C8_NoLoanNoPayment ==
  called =>
    /\ Le(res.loanAmount, Zero) =>
         /\ res.monthlyEmi = Zero
         /\ \A rt \in ZeroRateTerms \cup PosRateTerms :
              calcEmi(res.loanAmount, rt[1], rt[2]) = Zero
    /\ Le(I(100), params.downPaymentPct) => res.monthlyEmi = Zero

\* a 150% down payment at rate 0: the loan amount is negative, the EMI is 0
C8_Witness ==
  /\ called
  /\ listing.price = I(100)
  /\ params.downPaymentPct = I(150)
  /\ params.interestRate = Zero
  /\ params.loanTerm = One
  /\ Lt(res.loanAmount, Zero)
  /\ res.monthlyEmi = Zero

\* C9: the sequence passed to computeIrr is -initialInvestment followed by
\* the annual cash flows, with netSaleProceeds added to the final entry only
\* and exactly once; the returned annualCfs holds the yearly flows without
\* the sale proceeds.
C9_SaleOnFinalEntryOnly ==
  called =>
    LET n == params.holdingYears.n
        base == <<Neg(res.initialInvestment)>> \o res.annualCfs
    IN /\ Len(res.annualCfs) = n
       /\ Len(res.irrFlows) = n + 1
       /\ \A k \in 1..n : res.irrFlows[k] = base[k]
       /\ res.irrFlows[n + 1] = Add(base[n + 1], res.netSaleProceeds)

\* a two-year holding with sale proceeds: only the last flow differs from
\* the yearly cash flow
C9_Witness ==
  /\ called
  /\ params.holdingYears = I(2)
  /\ res.netSaleProceeds # Zero
  /\ res.irrFlows[1] = Neg(res.initialInvestment)
  /\ res.irrFlows[2] = res.annualCfs[1]
  /\ res.irrFlows[3] # res.annualCfs[2]

\* C10: when the listing carries no usable rent estimate (rentZestimate
\* null, 0 or negative), the baseline monthly rent is price times the
\* fallback ratio configured in the params (rentEstimatePct, a percentage),
\* so a call that differs only in that ratio gives a different
\* effectiveMonthlyRent.
C10_FallbackRentFromParams ==
  LET rz == listing.rentZestimate
      noRent == rz = Null \/ Le(rz, Zero)
      vacant == Sub(One, Div(params.vacancyRate, I(100)))
  IN (called /\ noRent) =>
       /\ res.effectiveMonthlyRent =
            Mul(Mul(listing.price, Div(params.rentEstimatePct, I(100))), vacant)
       /\ \A rp \in RentEstimatePcts :
            (rp # params.rentEstimatePct /\ Lt(Zero, listing.price) /\ Lt(Zero, vacant)) =>
              analyze(listing, [params EXCEPT !.rentEstimatePct = rp]).effectiveMonthlyRent
                # res.effectiveMonthlyRent

\* a listing without rent estimate analysed with the ratio 0.55%: the rent
\* used is 0.8% of the price
C10_Witness ==
  /\ called
  /\ listing.rentZestimate = Null
  /\ listing.price = I(100)
  /\ params.rentEstimatePct = Q(55, 100)
  /\ params.vacancyRate = Zero
  /\ res.effectiveMonthlyRent = Q(8, 10)

\* C11: analyze returns capRate = 0 when price = 0, cashOnCash = 0 and
\* annualizedRoi = 0 when initialInvestment = 0, and annualizedRoi = 0 when
\* holdingYears = 0: none of the three ratios is computed with a zero
\* divisor (a ratio other than the default 0 has non-zero divisors).
C11_GuardedRatios ==
  called =>
    /\ listing.price = Zero => res.capRate = Zero
    /\ res.initialInvestment = Zero => (res.cashOnCash = Zero /\ res.annualizedRoi = Zero)
    /\ params.holdingYears = Zero => res.annualizedRoi = Zero
    /\ res.capRate # Zero => listing.price # Zero
    /\ res.cashOnCash # Zero => res.initialInvestment # Zero
    /\ res.annualizedRoi # Zero =>
         (res.initialInvestment # Zero /\ params.holdingYears # Zero)

\* a property bought with nothing down and no closing costs: cash flow and
\* profit are non-zero, the two ratios over the zero investment are 0
C11_Witness ==
  /\ called
  /\ listing.price = I(100)
  /\ res.initialInvestment = Zero
  /\ params.holdingYears # Zero
  /\ res.monthlyCashFlow # Zero
  /\ res.totalProfit # Zero
  /\ res.cashOnCash = Zero
  /\ res.annualizedRoi = Zero

\* C12: for listing and params with finite numeric fields (price = 0,
\* interestRate = 0, loanTerm = 0, holdingYears = 0 and a zero down payment
\* included), every numeric field and every series entry of the result is
\* a finite number: no NaN and no infinity.
C12_AllFieldsFinite ==
  called =>
    /\ \A f \in {"initialInvestment", "downPayment", "buyClosing", "loanAmount",
                  "monthlyEmi", "monthlyCashFlow", "annualCashFlow",
                  "totalMonthlyExpenses", "effectiveMonthlyRent", "capRate",
                  "cashOnCash", "futurePropertyValue", "remainingMortgage",
                  "sellClosing", "netSaleProceeds", "totalProfit", "annualizedRoi",
                  "spDeployed", "spProfit"} : IsFinite(res[f])
    /\ \A f \in {"annualCfs", "propWealthSeries", "spPortfolioSeries",
                  "spDeployedSeries", "irrFlows"} :
         \A k \in 1..Len(res[f]) : IsFinite(res[f][k])
    /\ \A k \in 1..Len(res.equityGrowth) :
         /\ IsFinite(res.equityGrowth[k].propertyValue)
         /\ IsFinite(res.equityGrowth[k].remainingMortgage)
         /\ IsFinite(res.equityGrowth[k].equity)

\* a zero-period loan on a positive principal: the monthly payment is
\* infinite, and so are the figures computed from it
C12_Witness ==
  /\ called
  /\ params.loanTerm = Zero
  /\ params.interestRate = Zero
  /\ Lt(Zero, res.loanAmount)
  /\ res.monthlyEmi = PosInf
  /\ res.totalMonthlyExpenses = PosInf
  /\ res.monthlyCashFlow = NegInf
  /\ res.annualCashFlow = NegInf

\* C17: for every result with holdingYears >= 1, each path's final profit is
\* its last wealth value minus the capital deployed into it:
\* spProfit = spPortfolioSeries[last] - spDeployed, with
\* spDeployed = spDeployedSeries[last], and
\* totalProfit = propWealthSeries[last] - initialInvestment.
C17_FinalProfits ==
  (called /\ params.holdingYears.n >= 1) =>
    /\ res.spProfit = Sub(res.spPortfolioSeries[Len(res.spPortfolioSeries)], res.spDeployed)
    /\ res.spDeployed = res.spDeployedSeries[Len(res.spDeployedSeries)]
    /\ res.totalProfit =
         Sub(res.propWealthSeries[Len(res.propWealthSeries)], res.initialInvestment)

\* a three-year holding with yearly cash flows, capital calls included, and
\* a profit on both paths
C17_Witness ==
  /\ called
  /\ params.holdingYears = I(3)
  /\ \E k \in 1..3 : Lt(res.annualCfs[k], Zero)
  /\ Lt(res.initialInvestment, res.spDeployed)
  /\ res.spProfit # Zero
  /\ res.totalProfit # Zero
  /\ res.totalProfit =
       Sub(res.propWealthSeries[Len(res.propWealthSeries)], res.initialInvestment)

\* C18: for every year y in 1..holdingYears the yearly cash flow is
\* rent_y*(1 - vacancy%)*12 minus the sum of the mortgage of the year,
\* value_y*taxRate%, monthlyHoaFee*12, insuranceAnnual, value_y*maintenance%
\* and rent_y*mgmtFee%*12, where rent_y = baseRent*(1 + rentIncreaseRate%)^y
\* and value_y = price*(1 + appreciationRate%)^y: HOA and insurance do not
\* escalate, and the management fee is charged on the gross rent.
C18_YearlyCashFlow ==
  called =>
    \A y \in 1..params.holdingYears.n :
      LET pct(x) == Div(x, I(100))
          rent == Mul(moRentOf(listing), Pow(Add(One, pct(params.rentIncreaseRate)), I(y)))
          value == Mul(listing.price, Pow(Add(One, pct(params.appreciationRate)), I(y)))
          mortgage == IF y <= params.loanTerm.n THEN Mul(I(12), res.monthlyEmi) ELSE Zero
          fixed == Add(Mul(moHoaOf(listing), I(12)), params.insuranceAnnual)
          onValue == Add(Mul(value, pct(taxRateOf(listing))),
                         Mul(value, pct(params.maintenancePct)))
          fee == Mul(Mul(rent, pct(params.mgmtFeePct)), I(12))
          income == Mul(Mul(rent, Sub(One, pct(params.vacancyRate))), I(12))
      IN res.annualCfs[y] = Sub(income, Add(mortgage, Add(onValue, Add(fixed, fee))))

\* a let property with vacancy, a management fee, HOA and insurance, held
\* three years with growing rent and value: each year has its own cash flow
C18_Witness ==
  /\ called
  /\ params.holdingYears = I(3)
  /\ Lt(Zero, params.vacancyRate)
  /\ Lt(Zero, params.mgmtFeePct)
  /\ Lt(Zero, params.insuranceAnnual)
  /\ Lt(Zero, moHoaOf(listing))
  /\ Lt(Zero, params.rentIncreaseRate)
  /\ Lt(Zero, params.appreciationRate)
  /\ Lt(Zero, listing.price)
  /\ res.annualCfs[1] # res.annualCfs[2]
  /\ res.annualCfs[2] # res.annualCfs[3]

\* C19: in the yearly schedule the mortgage payment, 12 * monthlyEmi, is
\* charged in year y if and only if y <= loanTerm: against the same purchase
\* paid in cash, the cash flow of a year y <= loanTerm is lower by exactly
\* 12 * monthlyEmi and the cash flow of a year y > loanTerm is the same; and
\* for every year y >= loanTerm the equity point's remainingMortgage is 0.
C19_MortgageWhileLoanRuns ==
  called =>
    LET cash == analyze(listing, [params EXCEPT !.downPaymentPct = I(100)])
    IN /\ cash.monthlyEmi = Zero
       /\ \A y \in 1..params.holdingYears.n :
            /\ y <= params.loanTerm.n =>
                 res.annualCfs[y] = Sub(cash.annualCfs[y], Mul(I(12), res.monthlyEmi))
            /\ y > params.loanTerm.n => res.annualCfs[y] = cash.annualCfs[y]
            /\ y >= params.loanTerm.n => res.equityGrowth[y].remainingMortgage = Zero

\* a two-year loan on a property held three years: the first two years
\* carry the payment and an outstanding or just-cleared balance, the third
\* year carries neither
C19_Witness ==
  /\ called
  /\ params.loanTerm = I(2)
  /\ params.holdingYears = I(3)
  /\ Lt(Zero, res.monthlyEmi)
  /\ IsFinite(res.monthlyEmi)
  /\ Lt(Zero, res.equityGrowth[1].remainingMortgage)
  /\ res.equityGrowth[2].remainingMortgage = Zero
  /\ res.equityGrowth[3].remainingMortgage = Zero
  /\ res.annualCfs[3] =
       analyze(listing, [params EXCEPT !.downPaymentPct = I(100)]).annualCfs[3]
  /\ res.annualCfs[2] #
       analyze(listing, [params EXCEPT !.downPaymentPct = I(100)]).annualCfs[2]

\* C20: the benchmark series starts at spPortfolioSeries[0] =
\* initialInvestment and, for every year y in 1..holdingYears,
\* spPortfolioSeries[y] = spPortfolioSeries[y-1]*(1 + spGrowthRate/100) + c_y
\* and spDeployedSeries[y] = spDeployedSeries[y-1] + c_y, where c_y is
\* -annualCfs[y-1] when that cash flow is negative and 0 otherwise; hence
\* spDeployed is initialInvestment plus the sum of the absolute values of
\* the negative yearly cash flows.  (Sequences are 1-based here: entry y of
\* a series is at index y + 1, the cash flow of year y at index y.)
C20_BenchmarkRecurrence ==
  called =>
    LET c(y) == IF Lt(res.annualCfs[y], Zero) THEN Neg(res.annualCfs[y]) ELSE Zero
        growth == Add(One, Div(params.spGrowthRate, I(100)))
        shortfalls == [y \in 1..Len(res.annualCfs) |-> c(y)]
    IN /\ res.spPortfolioSeries[1] = res.initialInvestment
       /\ res.spDeployedSeries[1] = res.initialInvestment
       /\ \A y \in 1..params.holdingYears.n :
            /\ res.spPortfolioSeries[y + 1] = Add(Mul(res.spPortfolioSeries[y], growth), c(y))
            /\ res.spDeployedSeries[y + 1] = Add(res.spDeployedSeries[y], c(y))
       /\ res.spDeployed = SumFrom(shortfalls, 1, res.initialInvestment)

\* a three-year holding with a growing benchmark in which a year's
\* shortfall is added to the portfolio and to the capital deployed
C20_Witness ==
  /\ called
  /\ params.holdingYears = I(3)
  /\ Lt(Zero, params.spGrowthRate)
  /\ Lt(Zero, res.initialInvestment)
  /\ Lt(res.annualCfs[2], Zero)
  /\ res.spDeployedSeries[3] = Sub(res.spDeployedSeries[2], res.annualCfs[2])
  /\ Lt(res.spDeployedSeries[3], res.spPortfolioSeries[3])

C16_ResultsAreCurrent ==
  LET current == filterListings(raw, priceRange, selectedTypes)
  IN /\ filtered = current
     /\ DOMAIN results = {current[k].zpid : k \in 1..Len(current)}
     /\ \A k \in 1..Len(current) :
          results[current[k].zpid] = analyze(current[k], pgParams)

\* the page after the params were changed and the filter narrowed to the
\* single-family listings of price 100: one entry is left, computed from the
\* params as they are now
C16_Witness ==
  /\ Len(raw) = 3
  /\ pgParams.holdingYears = I(1)
  /\ pgParams.downPaymentPct = I(50)
  /\ selectedTypes = <<"SINGLE_FAMILY">>
  /\ priceRange = <<I(100), I(100)>>
  /\ DOMAIN results = {"b"}
  /\ Len(results["b"].annualCfs) = 1
  /\ results["b"].downPayment = I(50)

\* C14: a call to analyze leaves the listing record and the params record
\* unchanged and writes no state outside its own result: after a step of
\* the page, with all the calls of its batch, the listings, the params and
\* the filter settings are as the event's handler set them and the listings
\* analysed are as they were loaded; and the arrays in one result
\* (annualCfs, equityGrowth, propWealthSeries, spPortfolioSeries,
\* spDeployedSeries) are shared neither with another array of that result,
\* nor with the arrays of another result of the batch, nor with those of
\* the results held before.
C14_AnalyzeFrame ==
  [][LET ids(ar) == UNION {{ar[zpid][f] : f \in DOMAIN ar[zpid]} : zpid \in DOMAIN ar}
     IN /\ \E ev \in PageEvents :
             /\ raw' = handled(ev).raw
             /\ pgParams' = handled(ev).pgParams
             /\ priceRange' = handled(ev).priceRange
             /\ selectedTypes' = handled(ev).selectedTypes
        /\ \A k \in 1..Len(raw') : raw'[k] \in Catalogue
        /\ \A k \in 1..Len(filtered') : filtered'[k] \in Catalogue
        /\ DOMAIN arrays' = DOMAIN results'
        /\ Cardinality(ids(arrays')) = 5 * Cardinality(DOMAIN arrays')
        /\ arrays' # arrays => ids(arrays') \cap ids(arrays) = {}
        /\ UNCHANGED <<amortVars, analyzeVars, irrVars>>]_vars

\* three results computed by a batch that replaced an earlier one, the
\* listing without rent estimate among them: fifteen arrays, the listings
\* as loaded
C14_Witness ==
  /\ heap.space = 0
  /\ heap.top = 3 * Len(ArrayLiterals)
  /\ DOMAIN results = {"a", "b", "c"}
  /\ Cardinality(UNION {{arrays[zpid][f] : f \in DOMAIN arrays[zpid]} :
                          zpid \in DOMAIN arrays}) = 15
  /\ \E k \in 1..Len(raw) : raw[k].zpid = "b" /\ raw[k].rentZestimate = Null
  /\ "insuranceAnnual" \in DOMAIN pgParams

\* C15: every AnalysisResult field that a consumer reads (the page's sort
\* and hide-flagged filter, PortfolioTable, PropertyDetail including its
\* data-quality flag list, Charts, PropertyMap) is a field present in the
\* record that analyze returns, so no consumer dereferences an absent field.
C15_ConsumersReadReturnedFields ==
  \A zpid \in DOMAIN results : ConsumerReads \subseteq returnedFields(results[zpid])

\* a result on the page of which dataFlags, read by the hide-flagged filter
\* and by PropertyDetail, is no field, while every other field read is one
C15_Witness ==
  \E zpid \in DOMAIN results :
    /\ "dataFlags" \in sortedReads(TRUE, "irr") \cap PropertyDetailReads
    /\ "dataFlags" \notin returnedFields(results[zpid])
    /\ ConsumerReads \ {"dataFlags"} \subseteq returnedFields(results[zpid])

(***************************************************************************)
(* Further properties of analyze.                                          *)
(***************************************************************************)
\* C21: the subject-property series starts at propWealthSeries[0] =
\* downPayment - (sellingCostsPct/100)*price and, for every year y in
\* 1..holdingYears, propWealthSeries[y] is the year's propertyValue minus
\* its remainingMortgage minus (sellingCostsPct/100)*propertyValue, plus the
\* sum of the yearly cash flows up to and including year y.  (Entry y of
\* the series is at index y + 1, the equity point of year y at index y.)
C21_PropertyWealthSeries ==
  called =>
    LET frac == Div(params.sellingCostsPct, I(100))
        upTo(y) == SumFrom(SubSeq(res.annualCfs, 1, y), 1, Zero)
    IN /\ res.propWealthSeries[1] = Sub(res.downPayment, Mul(frac, listing.price))
       /\ \A y \in 1..params.holdingYears.n :
            res.propWealthSeries[y + 1] =
              Add(Sub(Sub(res.equityGrowth[y].propertyValue,
                          res.equityGrowth[y].remainingMortgage),
                      Mul(frac, res.equityGrowth[y].propertyValue)),
                  upTo(y))

\* a financed property with selling costs held three years, with cash
\* flows in every year: the liquidation value moves from year to year
C21_Witness ==
  /\ called
  /\ params.holdingYears = I(3)
  /\ Lt(Zero, params.sellingCostsPct)
  /\ Lt(Zero, res.equityGrowth[1].remainingMortgage)
  /\ \A y \in 1..3 : res.annualCfs[y] # Zero
  /\ res.propWealthSeries[1] # res.downPayment
  /\ res.propWealthSeries[2] # res.propWealthSeries[3]
  /\ res.propWealthSeries[3] # res.propWealthSeries[4]

\* C25: capRate ignores financing: two calls to analyze on the same listing
\* whose params differ only in interestRate, loanTerm, downPaymentPct and
\* closingCostsPct return the same capRate, which equals
\* (12*effectiveMonthlyRent - 12*(monthly tax + HOA + insurance +
\* maintenance + management fee)) / price * 100.
C25_CapRateIgnoresFinancing ==
  called =>
    LET pct(x) == Div(x, I(100))
        hoa == IF listing.monthlyHoaFee = Null THEN Zero ELSE listing.monthlyHoaFee
        tax == Div(Mul(listing.price, pct(taxRateOf(listing))), I(12))
        insurance == Div(params.insuranceAnnual, I(12))
        maintenance == Div(Mul(listing.price, pct(params.maintenancePct)), I(12))
        fee == Mul(moRentOf(listing), pct(params.mgmtFeePct))
        opex == Add(tax, Add(hoa, Add(insurance, Add(maintenance, fee))))
        noi == Sub(Mul(I(12), res.effectiveMonthlyRent), Mul(I(12), opex))
        steady == /\ params.appreciationRate = Zero
                  /\ params.rentIncreaseRate = Zero
                  /\ params.spGrowthRate = Zero
        financings == {<<Zero, I(1), I(100), Zero>>, <<Zero, I(2), I(20), I(5)>>}
                        \cup (IF steady THEN {<<I(1200), I(1), I(20), I(5)>>} ELSE {})
        refinanced(fin) == [params EXCEPT !.interestRate = fin[1], !.loanTerm = fin[2],
                                          !.downPaymentPct = fin[3],
                                          !.closingCostsPct = fin[4]]
    IN /\ \A fin \in financings : analyze(listing, refinanced(fin)).capRate = res.capRate
       /\ res.capRate = Mul(Div(noi, listing.price), I(100))

\* C25, amended: capRate ignores financing for every listing, and for a
\* listing with a price other than 0 it equals
\* (12*effectiveMonthlyRent - 12*(monthly tax + HOA + insurance +
\* maintenance + management fee)) / price * 100; at price 0 it is 0.
C25_CapRateIgnoresFinancingPriced ==
  called =>
    LET pct(x) == Div(x, I(100))
        hoa == IF listing.monthlyHoaFee = Null THEN Zero ELSE listing.monthlyHoaFee
        tax == Div(Mul(listing.price, pct(taxRateOf(listing))), I(12))
        insurance == Div(params.insuranceAnnual, I(12))
        maintenance == Div(Mul(listing.price, pct(params.maintenancePct)), I(12))
        fee == Mul(moRentOf(listing), pct(params.mgmtFeePct))
        opex == Add(tax, Add(hoa, Add(insurance, Add(maintenance, fee))))
        noi == Sub(Mul(I(12), res.effectiveMonthlyRent), Mul(I(12), opex))
        steady == /\ params.appreciationRate = Zero
                  /\ params.rentIncreaseRate = Zero
                  /\ params.spGrowthRate = Zero
        financings == {<<Zero, I(1), I(100), Zero>>, <<Zero, I(2), I(20), I(5)>>}
                        \cup (IF steady THEN {<<I(1200), I(1), I(20), I(5)>>} ELSE {})
        refinanced(fin) == [params EXCEPT !.interestRate = fin[1], !.loanTerm = fin[2],
                                          !.downPaymentPct = fin[3],
                                          !.closingCostsPct = fin[4]]
    IN /\ \A fin \in financings : analyze(listing, refinanced(fin)).capRate = res.capRate
       /\ res.capRate = IF listing.price # Zero THEN Mul(Div(noi, listing.price), I(100))
                        ELSE Zero

\* a financed property with all five operating expenses and a non-zero cap
\* rate, whose financing costs show in its cash flow
C25_Witness ==
  /\ called
  /\ listing.price = I(100)
  /\ listing.monthlyHoaFee # Null
  /\ Lt(Zero, params.insuranceAnnual)
  /\ Lt(Zero, params.mgmtFeePct)
  /\ Lt(Zero, res.monthlyEmi)
  /\ IsFinite(res.monthlyEmi)
  /\ res.capRate # Zero
  /\ analyze(listing, [params EXCEPT !.downPaymentPct = I(100)]).capRate = res.capRate
  /\ analyze(listing, [params EXCEPT !.downPaymentPct = I(100)]).monthlyCashFlow
       # res.monthlyCashFlow

\* C26: the year-1 snapshot is the first year of the schedule: for every
\* input with holdingYears >= 1 and loanTerm >= 1, annualCashFlow
\* (12 * monthlyCashFlow, the figure used for cash-on-cash) equals
\* annualCfs[0], both being computed from the same year-1 rent and
\* property value.
C26_SnapshotIsFirstYear ==
  (called /\ params.holdingYears.n >= 1 /\ params.loanTerm.n >= 1) =>
    /\ res.annualCashFlow = Mul(I(12), res.monthlyCashFlow)
    /\ res.annualCashFlow = res.annualCfs[1]

\* a property whose rent and value grow 10% a year, taxed at the default
\* rate: the snapshot is computed from the rent and the price as listed, the
\* first year of the schedule from both grown once, so the year's cash flow
\* is higher by a year of rent growth less the tax on the growth in value
C26_Witness ==
  /\ called
  /\ params.holdingYears.n >= 1
  /\ params.loanTerm.n >= 1
  /\ params.rentIncreaseRate = I(10)
  /\ params.appreciationRate = I(10)
  /\ params.vacancyRate = Zero
  /\ params.maintenancePct = Zero
  /\ params.mgmtFeePct = Zero
  /\ listing.rentZestimate = I(2)
  /\ listing.price = I(100)
  /\ listing.propertyTaxRate = Null
  /\ res.effectiveMonthlyRent = I(2)
  /\ res.annualCashFlow # res.annualCfs[1]
  /\ Sub(res.annualCfs[1], res.annualCashFlow) =
       Sub(Mul(I(12), Q(2, 10)), Div(Mul(I(10), Q(215, 100)), I(100)))

\* C29: for every result with integer holdingYears >= 1 the exit figures
\* agree with the last equity point: futurePropertyValue is its
\* propertyValue and remainingMortgage its remainingMortgage, every equity
\* point has equity = propertyValue - remainingMortgage and year = its
\* 1-based index, and netSaleProceeds is the last point's equity minus
\* sellClosing.
C29_ExitAgreesWithLastPoint ==
  (called /\ params.holdingYears.n >= 1) =>
    LET last == res.equityGrowth[Len(res.equityGrowth)]
    IN /\ Len(res.equityGrowth) = params.holdingYears.n
       /\ res.futurePropertyValue = last.propertyValue
       /\ res.remainingMortgage = last.remainingMortgage
       /\ \A k \in 1..Len(res.equityGrowth) :
            /\ res.equityGrowth[k].year = k
            /\ res.equityGrowth[k].equity =
                 Sub(res.equityGrowth[k].propertyValue, res.equityGrowth[k].remainingMortgage)
       /\ res.netSaleProceeds = Sub(last.equity, res.sellClosing)

\* a sale after two years of a four-year loan, with selling costs: a
\* balance is still owed and the proceeds are below the equity
C29_Witness ==
  /\ called
  /\ params.holdingYears = I(2)
  /\ params.loanTerm = I(4)
  /\ Lt(Zero, res.remainingMortgage)
  /\ Lt(Zero, res.sellClosing)
  /\ res.equityGrowth[1].propertyValue # res.equityGrowth[2].propertyValue
  /\ res.remainingMortgage = res.equityGrowth[2].remainingMortgage
  /\ Lt(res.netSaleProceeds, res.equityGrowth[2].equity)

(***************************************************************************)
(* Further properties of computeIrr.                                       *)
(***************************************************************************)
\* C22: computeIrr first tests the bracket [-0.5, 5.0]; only if NPV has the
\* same strict sign at both ends does it try the upper bounds 10, 50, 100 in
\* that order, adopting the first one at which NPV's sign differs from the
\* sign at -0.5 (the lower bound stays -0.5); if none of 5, 10, 50, 100
\* gives a sign change it returns 0 without bisecting.
C22_BracketSearch ==
  LET half == RDiv(RInt(-1), RInt(2))
      same(hi) == ProdSign(npvAt(cashFlows, half), npvAt(cashFlows, RInt(hi))) > 0
      failed(k) == same(5) /\ \A j \in 1..k : same(TryHis[j])
  IN /\ irr.pc = "widen" =>
          /\ irr.k \in 0..Len(TryHis)
          /\ irr.lo = half
          /\ irr.hi = RInt(5)
          /\ failed(irr.k)
     /\ (irr.pc = "bisect" /\ irr.i = 0) =>
          /\ irr.lo = half
          /\ irr.nLo = npvAt(cashFlows, half)
          /\ irr.k = 0 => (irr.hi = RInt(5) /\ ~same(5))
          /\ irr.k > 0 =>
               (irr.hi = RInt(TryHis[irr.k]) /\ ~same(TryHis[irr.k]) /\ failed(irr.k - 1))
          /\ irr.nHi = npvAt(cashFlows, irr.hi)
     /\ (irr.pc = "done" /\ irr.npvCalls > 0 /\ irr.i = 0) =>
          /\ irr.k = Len(TryHis)
          /\ failed(Len(TryHis))
          /\ irr.ret = RZero
     /\ irr.i > 0 => (~same(5) \/ \E j \in 1..Len(TryHis) : ~same(TryHis[j]))

\* flows -1, 20 (a return of 1900%): no sign change up to 5 nor up to 10,
\* the bound 50 is adopted and 100 is never tried
C22_Witness ==
  /\ cashFlows = <<I(-1), I(20)>>
  /\ irr.pc = "bisect"
  /\ irr.i = 0
  /\ irr.k = 2
  /\ irr.hi = RInt(50)
  /\ irr.lo = RDiv(RInt(-1), RInt(2))
  /\ irr.npvCalls = 4

\* C23: for every cash-flow sequence computeIrr returns a percentage
\* between -100 and 1000 inclusive: whenever the final bisection midpoint
\* lies outside the rate interval [-1, 10] (for example a root located with
\* the widened upper bound 50 or 100), it returns 0 instead of rate*100.
C23_ReturnWithinClamp ==
  irr.pc = "done" =>
    LET r == RDiv(RAdd(irr.lo, irr.hi), RInt(2))
    IN /\ RLe(RInt(-100), irr.ret)
       /\ RLe(irr.ret, RInt(1000))
       /\ irr.i = BisectIterations =>
            irr.ret = IF RLt(r, RInt(-1)) \/ RLt(RInt(10), r) THEN RZero
                      ELSE RMul(r, RInt(100))

\* flows -1, 20: the root, 1900%, is found with the upper bound 50 and lies
\* above 1000%, so 0 is returned
C23_Witness ==
  /\ cashFlows = <<I(-1), I(20)>>
  /\ irr.pc = "done"
  /\ irr.i = BisectIterations
  /\ RLt(RInt(18), irr.lo)
  /\ RLt(irr.hi, RInt(20))
  /\ irr.ret = RZero

\* computeIrr run to completion: a call that has started keeps executing.
\* This is weak fairness of NextIrr, WF_vars(NextIrr), written out by its
\* definition []<>~ENABLED <<NextIrr>>_vars \/ []<><<NextIrr>>_vars: a step
\* is enabled exactly while the call has not returned, and every step
\* changes irr.
SpecIrrLive == SpecIrr /\ ([]<>(irr.pc = "done") \/ []<><<NextIrr>>_vars)

\* C24: computeIrr terminates on every finite cash-flow sequence: it
\* performs at most three bracket-widening evaluations and exactly 60
\* bisection iterations when a bracket exists (0 when it returns early),
\* whatever the values of the cash flows.
C24_Terminates ==
  /\ [](LET half == RDiv(RInt(-1), RInt(2))
            same(hi) == ProdSign(npvAt(cashFlows, half), npvAt(cashFlows, RInt(hi))) > 0
            bracketed == /\ hasNeg(cashFlows)
                         /\ hasPos(cashFlows)
                         /\ ~same(5) \/ \E j \in 1..Len(TryHis) : ~same(TryHis[j])
        IN /\ irr.k \in 0..3
           /\ irr.i \in 0..BisectIterations
           /\ irr.npvCalls = (IF irr.pc \in {"signs", "bracket"} THEN 0 ELSE
                              IF hasNeg(cashFlows) /\ hasPos(cashFlows) THEN 2 ELSE 0)
                               + irr.k + irr.i
           /\ irr.pc = "done" =>
                irr.i = (IF bracketed THEN BisectIterations ELSE 0))
  /\ <>(irr.pc = "done")

\* a call that widened the bracket twice and bisected: 2 + 2 + 60
\* evaluations of NPV
C24_Witness ==
  /\ irr.pc = "done"
  /\ Len(cashFlows) = 2
  /\ irr.k = 2
  /\ irr.i = BisectIterations
  /\ irr.npvCalls = 64

\* C28: the bisection bracket invariant of computeIrr.  At the start of
\* each of the 60 iterations lo < hi, lo >= -0.5, hi <= the adopted upper
\* bound, nLo = npv(lo), nHi = npv(hi) and nLo * nHi <= 0; each iteration
\* replaces exactly one endpoint by the midpoint, halving hi - lo.
C28_BracketInvariant ==
  /\ [](irr.pc = "bisect" =>
          LET adopted == IF irr.k = 0 THEN 5 ELSE TryHis[irr.k]
          IN /\ RLt(irr.lo, irr.hi)
             /\ RLe(RDiv(RInt(-1), RInt(2)), irr.lo)
             /\ RLe(irr.hi, RInt(adopted))
             /\ irr.nLo = npvAt(cashFlows, irr.lo)
             /\ irr.nHi = npvAt(cashFlows, irr.hi)
             /\ ProdSign(irr.nLo, irr.nHi) <= 0)
  /\ [][irr.pc = "bisect" /\ irr'.pc = "bisect" =>
          LET mid == RDiv(RAdd(irr.lo, irr.hi), RInt(2))
          IN /\ \/ irr'.lo = irr.lo /\ irr'.hi = mid
                \/ irr'.lo = mid /\ irr'.hi = irr.hi
             /\ RMul(RSub(irr'.hi, irr'.lo), RInt(2)) = RSub(irr.hi, irr.lo)]_vars

\* the last iteration is about to exit with both endpoints moved, in a
\* bracket that was widened
C28_Witness ==
  /\ irr.pc = "bisect"
  /\ irr.i = BisectIterations
  /\ irr.k > 0
  /\ RLt(RDiv(RInt(-1), RInt(2)), irr.lo)
  /\ RLt(irr.hi, RInt(TryHis[irr.k]))
  /\ RSign(irr.nLo) * RSign(irr.nHi) < 0

(***************************************************************************)
(* Further properties of the page                                          *)
(***************************************************************************)

\* C27: every parameter field that analyze reads from its params argument
\* (interestRate, loanTerm, downPaymentPct, closingCostsPct,
\* sellingCostsPct, holdingYears, appreciationRate, rentIncreaseRate,
\* maintenancePct, vacancyRate, insuranceAnnual, mgmtFeePct, spGrowthRate)
\* is defined as a number in the params record the page supplies, initially
\* DEFAULT_PARAMS and afterwards after any sequence of sidebar changes.
C27_ParamsAreNumbers ==
  \A f \in {"interestRate", "loanTerm", "downPaymentPct", "closingCostsPct",
            "sellingCostsPct", "holdingYears", "appreciationRate",
            "rentIncreaseRate", "maintenancePct", "vacancyRate",
            "insuranceAnnual", "mgmtFeePct", "spGrowthRate"} :
    /\ f \in DOMAIN pgParams
    /\ pgParams[f].d > 0

\* a loaded page analysed with params that have insurancePct and no
\* insuranceAnnual: the monthly cash flow of a result is NaN
C27_Witness ==
  /\ Len(raw) > 0
  /\ "insurancePct" \in DOMAIN pgParams
  /\ "insuranceAnnual" \notin DOMAIN pgParams
  /\ \E zpid \in DOMAIN results : IsNaN(results[zpid].monthlyCashFlow)

\* C30: in the sidebar's home-type filter, starting from a non-empty
\* selection and a non-empty list of home types, after any sequence of
\* toggle clicks the selected set is never empty and is always a subset of
\* the available home types: toggling off the last selected type resets the
\* selection to all home types.
C30_SelectionNeverEmpty ==
  Len(raw) > 0 =>
    LET homeTypes == homeTypesOf(raw)
    IN /\ Len(selectedTypes) > 0
       /\ \A k \in 1..Len(selectedTypes) : includes(homeTypes, selectedTypes[k])
       /\ \A k \in 1..Len(homeTypes) :
            selectedTypes = <<homeTypes[k]>> =>
              toggleType(homeTypes, selectedTypes, homeTypes[k]) = homeTypes

\* one of two home types has been toggled off: the next click on the
\* remaining one would empty the selection
C30_Witness ==
  /\ Len(raw) > 0
  /\ Len(homeTypesOf(raw)) = 2
  /\ selectedTypes = <<"CONDO">>
  /\ Len(filtered) = 1

====
